---------------------------- MODULE Spec2Model ----------------------------
(***************************************************************************)
(* KalpaSETU gateway: the SPI bus arbiter, the two radio ingestors, the    *)
(* strict-priority processor, the store-and-forward egress and the         *)
(* archiver, modelled from "src/Gateway codes".                            *)
(*                                                                         *)
(* The specifications share the definitions below:                         *)
(*   Spec       the ingest pipeline: interrupt callbacks, LoRa and nRF     *)
(*              workers on the shared bus, and the processor loop;         *)
(*   SpecLatch  the interrupt callbacks step by step and the two workers;  *)
(*   SpecStore  the store pipeline: the processor draining a filled        *)
(*              high-priority queue into fatigue_log, the cloud upload     *)
(*              of the egress, the archiver and the wall clock;            *)
(*   SpecPacket the two packet handlers of the processor on packets, rule  *)
(*              sets and store states drawn from bounded sets;             *)
(*   SpecWatch  the watchdog loop of main(), the ends of the threads, the  *)
(*              alert loop of the egress and the processor as producer of  *)
(*              alerts;                                                    *)
(*   SpecShutdown  SpecWatch with its threads scheduled fairly;            *)
(*   SpecBatch  the upload batch on any content of fatigue_log;            *)
(*   SpecModem  the data-session dialogue of one upload attempt;           *)
(*   SpecQueues every producer at its put, from any filling of the queues; *)
(*   SpecAffinity  the sqlite3 connections of the processor and the egress *)
(*              and the threads that open and use them.                    *)
(*                                                                         *)
(* Whether the store accepts a statement of the processor is an input      *)
(* (store_up) of every specification but SpecAffinity, which derives it    *)
(* from the thread that opened the connection.                             *)
(***************************************************************************)
EXTENDS Integers, Sequences, FiniteSets, TLC

(***************************************************************************)
(* Bounds of the model.                                                    *)
(***************************************************************************)
\* queue.Queue(maxsize=100) and queue.Queue(maxsize=500), scaled down
HighCap == 2
LowCap == 2
\* fatigue rows ever inserted (cap on the AUTOINCREMENT counter)
MaxRows == 2

\* LIMIT 50 of the upload batch, scaled down
BatchLimit == 2
\* SETU_ARCHIVE_DAYS (default 365), in ticks of the model clock
ARCHIVE_DAYS_THRESHOLD == 1
\* the clock stops after this many ticks
MaxTime == ARCHIVE_DAYS_THRESHOLD + 1
\* queue.Queue(maxsize=50) of the alert queue, scaled down
AlertCap == 1
\* number of configured alerting rules
MaxRules == 2

Workers == {"LoRaWorker", "nRFWorker"}

\* the payload a radio read returns; its bytes are not looked at here
Payloads == {"pkt"}

VARIABLES
    lock,                 \* SPILock._lock: TRUE while the threading.Lock is locked
    spi_open,             \* SPILock._spi: TRUE while the spidev device is open
    packet_event,         \* lora_packet_event / nrf_packet_event latches
    pc,                   \* position of each worker in its run loop
    is_setup,             \* is_lora_setup / is_nrf_setup
    exc,                  \* an exception is propagating out of the worker's with block
    high_prio_q,          \* high_priority_queue
    low_prio_q,           \* low_priority_queue
    pcP,                  \* position of DataProcessingThread.run
    processed_something,  \* local of DataProcessingThread.run
    hi_seen_empty,        \* history: high_prio_q.empty() was true since the last high removal of this iteration
    hi_waiting,           \* history: a primary packet was queued when the last low item was finished
    store,                \* fatigue_log: log_id -> [timestamp, sent_to_cloud]
    seq,                  \* sqlite_sequence of fatigue_log (AUTOINCREMENT)
    now,                  \* datetime.utcnow(), in ticks
    pcE,                  \* position of CommunicationsThread in forward_data_to_cloud
    log_ids_to_update,    \* local of forward_data_to_cloud
    success,              \* result of _http_post_payload
    http_status,          \* status upstream answered to the last POST action (0: no answer seen)
    cloud,                \* history: log_id -> number of POSTs with that row which upstream accepted (0, 1, or 2 for more)
    pcA,                  \* position of archive_and_purge
    cutoff_date,          \* local of archive_and_purge
    records,              \* local of archive_and_purge: the rows fetched by the SELECT
    archived,             \* rows held by completely written archive files
    alert_q,              \* alert_queue: the alerts waiting for the egress
    shutdown_event,       \* shutdown_event: the shutdown latch
    pcS,                  \* position of main() in its watchdog loop
    pcC,                  \* position of CommunicationsThread.run
    is_sms_ready,         \* local of CommunicationsThread.run
    alert_message,        \* local of CommunicationsThread.run: the alert taken from the queue
    in_kind,              \* which handler of the processor is given in_packet
    in_packet,            \* the bytes handed to _process_lora_packet / _process_nrf_packet
    rules,                \* self.rules: config['alerting_rules']
    store_up,             \* the store accepts the INSERT and the commit of this call
    call_result,          \* how the last handler call ended: "returned" or "raised"
    fatigue_data,         \* fatigue_log: log_id -> [node_id, bin_1_cycles, bin_2_cycles, bin_3_cycles]
    environment_log,      \* environment_log: the rows in insertion order
    pcI,                  \* position of each interrupt callback: "idle", or "set" after it found the latch unset
    irq_pending,          \* history: an interrupt was raised since the worker last cleared the latch
    sms_result,           \* how send_sms ended for alert_message: "none" (not called), "sent", "failed", "raised"
    upload_due,           \* time.time() - last_cloud_upload_time > 900
    pcH,                  \* position of _http_post_payload
    at_log,               \* the commands _http_post_payload has written to the serial port
    cmd_failed,           \* history: a command of lines 178-189 did not get its expected response
    raising,              \* an exception is on its way out of _http_post_payload
    conn_thread,          \* the thread that created each sqlite3 connection ("none": no connection)
    pcD,                  \* position of each activity in its dialogue with its connection
    refused               \* history: the operations sqlite3 refused with "SQLite objects created in a thread can only be used in that same thread"

busVars == <<lock, spi_open, packet_event, pc, is_setup, exc>>
queueVars == <<high_prio_q, low_prio_q>>
procVars == <<pcP, processed_something, hi_seen_empty, hi_waiting>>
dbVars == <<store, seq>>
egressVars == <<pcE, log_ids_to_update, success, http_status, cloud>>
archVars == <<pcA, cutoff_date, records, archived>>
watchVars == <<shutdown_event, pcS, pcC, is_sms_ready, alert_message>>
packetVars == <<in_kind, in_packet, rules, store_up, call_result, fatigue_data, environment_log>>
latchVars == <<pcI, irq_pending>>
commVars == <<sms_result, upload_due>>
modemVars == <<pcH, at_log, cmd_failed, raising>>
connVars == <<conn_thread, pcD, refused>>

(***************************************************************************)
(* main(): interrupt callbacks                                             *)
(***************************************************************************)
\* lora_interrupt_callback / nrf_interrupt_callback
Interrupt(w) ==
    /\ packet_event' = [packet_event EXCEPT ![w] = TRUE]
    /\ UNCHANGED <<lock, spi_open, pc, is_setup, exc, queueVars, procVars, dbVars, now, egressVars, archVars, alert_q, watchVars, packetVars, latchVars, commVars, modemVars, connVars>>

\* the falling edge calls the callback: if not lora_event.is_set():
InterruptTest(w) ==
    /\ pcI[w] = "idle"
    /\ irq_pending' = [irq_pending EXCEPT ![w] = TRUE]
    /\ pcI' = [pcI EXCEPT ![w] = IF packet_event[w] THEN "idle" ELSE "set"]
    /\ UNCHANGED <<busVars, queueVars, procVars, dbVars, now, egressVars, archVars, alert_q, watchVars, packetVars, commVars, modemVars, connVars>>

\* lora_event.set(), and the callback returns
InterruptSet(w) ==
    /\ pcI[w] = "set"
    /\ packet_event' = [packet_event EXCEPT ![w] = TRUE]
    /\ pcI' = [pcI EXCEPT ![w] = "idle"]
    /\ UNCHANGED <<lock, spi_open, pc, is_setup, exc, queueVars, procVars, dbVars, now, egressVars, archVars, alert_q, watchVars, packetVars, irq_pending, commVars, modemVars, connVars>>

(***************************************************************************)
(* worker_threads: LoRaWorkerThread.run and nRFWorkerThread.run            *)
(***************************************************************************)
\* signaled = self.packet_event.wait(timeout=1.0); if signaled:
WorkerWait(w) ==
    /\ pc[w] = "wait"
    /\ packet_event[w]
    /\ pc' = [pc EXCEPT ![w] = "clear"]
    /\ UNCHANGED <<lock, spi_open, packet_event, is_setup, exc, queueVars, procVars, dbVars, now, egressVars, archVars, alert_q, watchVars, packetVars, latchVars, commVars, modemVars, connVars>>

\* self.packet_event.clear()
WorkerClear(w) ==
    /\ pc[w] = "clear"
    /\ packet_event' = [packet_event EXCEPT ![w] = FALSE]
    /\ pc' = [pc EXCEPT ![w] = "acquire"]
    /\ irq_pending' = [irq_pending EXCEPT ![w] = FALSE]
    /\ UNCHANGED <<lock, spi_open, is_setup, exc, queueVars, procVars, dbVars, now, egressVars, archVars, alert_q, watchVars, packetVars, pcI, commVars, modemVars, connVars>>

\* an acquire that does not wait for the lock to be free
EnterAcquireFree(w) ==
    /\ pc[w] = "acquire"
    /\ pc' = [pc EXCEPT ![w] = "enter"]
    /\ lock' = TRUE
    /\ UNCHANGED <<spi_open, packet_event, is_setup, exc, queueVars, procVars, dbVars, now, egressVars, archVars, alert_q, watchVars, packetVars, latchVars, commVars, modemVars, connVars>>

\* _SPIDevice.__enter__: self._lock.acquire() blocks until the lock is free
EnterAcquire(w) ==
    /\ pc[w] = "acquire"
    /\ ~lock
    /\ pc' = [pc EXCEPT ![w] = "enter"]
    /\ lock' = TRUE
    /\ UNCHANGED <<spi_open, packet_event, is_setup, exc, queueVars, procVars, dbVars, now, egressVars, archVars, alert_q, watchVars, packetVars, latchVars, commVars, modemVars, connVars>>

\* the except branch of __enter__ without its self._lock.release()
EnterOpenKeepLock(w) ==
    /\ pc[w] = "enter"
    /\ \E outcome \in {"ok", "open_fails", "speed_fails"} :
         /\ spi_open' = (outcome # "open_fails")
         /\ lock' = lock
         /\ pc' = [pc EXCEPT ![w] = IF outcome = "ok" THEN "setup" ELSE "handler"]
    /\ UNCHANGED <<packet_event, is_setup, exc, queueVars, procVars, dbVars, now, egressVars, archVars, alert_q, watchVars, packetVars, latchVars, commVars, modemVars, connVars>>

\* _SPIDevice.__enter__: open the device, set the speed, return the handle;
\* on an exception release the lock and re-raise into the worker's handler
EnterOpen(w) ==
    /\ pc[w] = "enter"
    /\ \E outcome \in {"ok", "open_fails", "speed_fails"} :
         /\ spi_open' = (outcome # "open_fails")
         /\ lock' = (outcome = "ok")
         /\ pc' = [pc EXCEPT ![w] = IF outcome = "ok" THEN "setup" ELSE "handler"]
    /\ UNCHANGED <<packet_event, is_setup, exc, queueVars, procVars, dbVars, now, egressVars, archVars, alert_q, watchVars, packetVars, latchVars, commVars, modemVars, connVars>>

\* if not is_setup: is_setup = self.setup_xxx(spi); if not is_setup: sleep, continue
WorkerSetup(w) ==
    /\ pc[w] = "setup"
    /\ \E ok \in BOOLEAN :
         /\ is_setup' = [is_setup EXCEPT ![w] = is_setup[w] \/ ok]
         /\ pc' = [pc EXCEPT ![w] = IF is_setup[w] \/ ok THEN "read" ELSE "sleep"]
    /\ UNCHANGED <<lock, spi_open, packet_event, exc, queueVars, procVars, dbVars, now, egressVars, archVars, alert_q, watchVars, packetVars, latchVars, commVars, modemVars, connVars>>

\* time.sleep(5); continue  -- leaves the with block through __exit__
WorkerSleep(w) ==
    /\ pc[w] = "sleep"
    /\ pc' = [pc EXCEPT ![w] = "exit"]
    /\ UNCHANGED <<lock, spi_open, packet_event, is_setup, exc, queueVars, procVars, dbVars, now, egressVars, archVars, alert_q, watchVars, packetVars, latchVars, commVars, modemVars, connVars>>

\* LoRa: getIrqFlags() & IRQ_RX_DONE_MASK, clearIrqFlags(), read()
\* nRF:  while self.nrf.available(): self.nrf.read()
\* a radio call may raise; without a packet the scope is left
WorkerRead(w) ==
    /\ pc[w] = "read"
    /\ \E outcome \in {"packet", "nothing", "raises"} :
         /\ pc' = [pc EXCEPT ![w] = IF outcome = "packet" THEN "put" ELSE "exit"]
         /\ exc' = [exc EXCEPT ![w] = (outcome = "raises")]
    /\ UNCHANGED <<lock, spi_open, packet_event, is_setup, queueVars, procVars, dbVars, now, egressVars, archVars, alert_q, watchVars, packetVars, latchVars, commVars, modemVars, connVars>>

\* a put into a queue without maxsize
PutAlways(q, cap, item) == Append(q, item)

\* queue.Queue.put(item, timeout=0.5) and put(item, block=False) on a queue with
\* maxsize cap: appended if there is room, else queue.Full and the item is dropped
Put(q, cap, item) == IF Len(q) < cap THEN Append(q, item) ELSE q

\* self.data_queue.put(packet_payload, timeout=0.5) inside the with block;
\* LoRa then re-arms with setRx() (may raise) and leaves, nRF loops on available()
WorkerPut(w) ==
    /\ pc[w] = "put"
    /\ \E item \in Payloads :
         IF w = "LoRaWorker"
         THEN /\ high_prio_q' = Put(high_prio_q, HighCap, item)
              /\ UNCHANGED low_prio_q
              /\ \E raises \in BOOLEAN :
                   /\ exc' = [exc EXCEPT ![w] = raises]
                   /\ pc' = [pc EXCEPT ![w] = "exit"]
         ELSE /\ low_prio_q' = Put(low_prio_q, LowCap, item)
              /\ UNCHANGED <<high_prio_q, exc>>
              /\ pc' = [pc EXCEPT ![w] = "read"]
    /\ UNCHANGED <<lock, spi_open, packet_event, is_setup, procVars, dbVars, now, egressVars, archVars, alert_q, watchVars, packetVars, latchVars, commVars, modemVars, connVars>>

\* a worker that clears its latch when it has served the radio
ExitScopeClear(w) ==
    /\ pc[w] = "exit"
    /\ \E closed \in BOOLEAN : spi_open' = ~closed
    /\ lock' = FALSE
    /\ packet_event' = [packet_event EXCEPT ![w] = FALSE]
    /\ pc' = [pc EXCEPT ![w] = IF exc[w] THEN "handler" ELSE "wait"]
    /\ UNCHANGED <<is_setup, exc, queueVars, procVars, dbVars, now, egressVars, archVars, alert_q, watchVars, packetVars, latchVars, commVars, modemVars, connVars>>

\* _SPIDevice.__exit__: close the device (an error is logged), finally release the lock;
\* an exception of the body goes on to the worker's handler
ExitScope(w) ==
    /\ pc[w] = "exit"
    /\ \E closed \in BOOLEAN : spi_open' = ~closed
    /\ lock' = FALSE
    /\ pc' = [pc EXCEPT ![w] = IF exc[w] THEN "handler" ELSE "wait"]
    /\ UNCHANGED <<packet_event, is_setup, exc, queueVars, procVars, dbVars, now, egressVars, archVars, alert_q, watchVars, packetVars, latchVars, commVars, modemVars, connVars>>

\* except Exception: is_setup = False  (exc[w] tells a failure of the body from one of __enter__)
WorkerHandler(w) ==
    /\ pc[w] = "handler"
    /\ is_setup' = [is_setup EXCEPT ![w] = FALSE]
    /\ exc' = [exc EXCEPT ![w] = FALSE]
    /\ pc' = [pc EXCEPT ![w] = "wait"]
    /\ UNCHANGED <<lock, spi_open, packet_event, queueVars, procVars, dbVars, now, egressVars, archVars, alert_q, watchVars, packetVars, latchVars, commVars, modemVars, connVars>>

\* positions between a successful __enter__ and the end of __exit__
InScope(w) == pc[w] \in {"setup", "sleep", "read", "put", "exit"}

\* positions at which the worker has acquired the lock and not yet released it
HoldsLock(w) == pc[w] = "enter" \/ InScope(w)

(***************************************************************************)
(* processing_thread: DataProcessingThread                                 *)
(***************************************************************************)
\* an alert of _check_alerting_rules: the rendered alert_message of a rule
RuleAlert(text) == [kind |-> "rule", text |-> text]

\* alert_message before the first alert_q.get()
NoAlert == [kind |-> "none", text |-> <<>>]

RECURSIVE PutAll(_, _, _)
\* for rule in self.rules: ... self.alert_q.put(alert_msg, block=False), queue.Full is logged
PutAll(q, cap, items) ==
    IF items = <<>> THEN q ELSE PutAll(Put(q, cap, Head(items)), cap, Tail(items))

\* an INSERT that stores the row as already sent
InsertFatigueSent(st, id, ts) ==
    [i \in DOMAIN st \cup {id} |->
        IF i = id THEN [timestamp |-> ts, sent_to_cloud |-> 1] ELSE st[i]]

\* INSERT INTO fatigue_log (...) VALUES (..., 0); commit
InsertFatigue(st, id, ts) ==
    [i \in DOMAIN st \cup {id} |->
        IF i = id THEN [timestamp |-> ts, sent_to_cloud |-> 0] ELSE st[i]]

\* while not shutdown: processed_something = False
ProcIterStart ==
    /\ pcP = "top"
    /\ ~shutdown_event
    /\ processed_something' = FALSE
    /\ hi_seen_empty' = FALSE
    /\ hi_waiting' = FALSE
    /\ pcP' = "hi_check"
    /\ UNCHANGED <<busVars, queueVars, dbVars, now, egressVars, archVars, alert_q, watchVars, packetVars, latchVars, commVars, modemVars, connVars>>

\* while not self.high_prio_q.empty():
ProcHiCheck ==
    /\ pcP = "hi_check"
    /\ IF high_prio_q = <<>>
       THEN /\ pcP' = "lo_check"
            /\ hi_seen_empty' = TRUE
       ELSE /\ pcP' = "hi_get"
            /\ UNCHANGED hi_seen_empty
    /\ UNCHANGED <<processed_something, hi_waiting, busVars, queueVars, dbVars, now, egressVars, archVars, alert_q, watchVars, packetVars, latchVars, commVars, modemVars, connVars>>

\* a high-priority body that falls through to the low-priority loop after one item
ProcHiGetOnce ==
    /\ pcP = "hi_get"
    /\ high_prio_q' = Tail(high_prio_q)
    /\ hi_seen_empty' = FALSE
    /\ hi_waiting' = FALSE
    /\ UNCHANGED <<store, seq>>
    /\ processed_something' = TRUE
    /\ pcP' = "lo_check"
    /\ UNCHANGED <<low_prio_q, busVars, now, egressVars, archVars, alert_q, watchVars, packetVars, latchVars, commVars, modemVars, connVars>>

\* lora_packet = get_nowait(); self._process_lora_packet(lora_packet); task_done();
\* processed_something = True.  The packet is discarded, or a row is inserted and
\* committed and each rule that matches puts its alert, or the store fails
\* (rollback), or an exception reaches run's handler.
ProcHiGet ==
    /\ pcP = "hi_get"
    /\ high_prio_q' = Tail(high_prio_q)
    /\ hi_seen_empty' = FALSE
    /\ hi_waiting' = FALSE
    /\ \E outcome \in {"inserted", "discarded", "store_error", "raises"} :
         /\ IF outcome = "inserted"
            THEN /\ seq < MaxRows
                 /\ seq' = seq + 1
                 /\ store' = InsertFatigue(store, seq + 1, now)
                 /\ \E matched \in 0..MaxRules :
                      alert_q' = PutAll(alert_q, AlertCap, [i \in 1..matched |-> RuleAlert(<<>>)])
            ELSE UNCHANGED <<store, seq, alert_q>>
         /\ IF outcome = "raises"
            THEN /\ pcP' = "top"
                 /\ UNCHANGED processed_something
            ELSE /\ pcP' = "hi_check"
                 /\ processed_something' = TRUE
    /\ UNCHANGED <<low_prio_q, busVars, now, egressVars, archVars, watchVars, packetVars, latchVars, commVars, modemVars, connVars>>

\* while not self.low_prio_q.empty():  ... else: if not processed_something: sleep(0.1)
ProcLoCheck ==
    /\ pcP = "lo_check"
    /\ pcP' = IF low_prio_q = <<>> THEN "top" ELSE "lo_get"
    /\ UNCHANGED <<processed_something, hi_seen_empty, hi_waiting, busVars, queueVars, dbVars, now, egressVars, archVars, alert_q, watchVars, packetVars, latchVars, commVars, modemVars, connVars>>

\* nrf_packet = self.low_prio_q.get_nowait()
ProcLoGet ==
    /\ pcP = "lo_get"
    /\ low_prio_q' = Tail(low_prio_q)
    /\ pcP' = "lo_proc"
    /\ UNCHANGED <<high_prio_q, processed_something, hi_seen_empty, hi_waiting, busVars, dbVars, now, egressVars, archVars, alert_q, watchVars, packetVars, latchVars, commVars, modemVars, connVars>>

\* self._process_nrf_packet(nrf_packet); task_done(); processed_something = True
\* (_process_nrf_packet catches every Exception itself; what its rollback raises
\* inside the handler reaches run's except Exception)
ProcLoProcess ==
    /\ pcP = "lo_proc"
    /\ hi_waiting' = (high_prio_q # <<>>)
    /\ \E raises \in BOOLEAN :
         IF raises
         THEN /\ pcP' = "top"
              /\ UNCHANGED processed_something
         ELSE /\ pcP' = "lo_check"
              /\ processed_something' = TRUE
    /\ UNCHANGED <<hi_seen_empty, busVars, queueVars, dbVars, now, egressVars, archVars, alert_q, watchVars, packetVars, latchVars, commVars, modemVars, connVars>>

(***************************************************************************)
(* The wall clock                                                          *)
(***************************************************************************)
\* datetime.utcnow() advances (isoformat() strings of one length order as the instants do)
Tick ==
    /\ now < MaxTime
    /\ now' = now + 1
    /\ UNCHANGED <<busVars, queueVars, procVars, dbVars, egressVars, archVars, alert_q, watchVars, packetVars, latchVars, commVars, modemVars, connVars>>

(***************************************************************************)
(* communications_thread: the modem's answer to AT+HTTPACTION=1            *)
(***************************************************************************)
Digit(d) == <<"0", "1", "2", "3", "4", "5", "6", "7", "8", "9">>[d + 1]

RECURSIVE Decimal(_)
\* str(n) for n >= 0
Decimal(n) == IF n < 10 THEN <<Digit(n)>> ELSE Decimal(n \div 10) \o <<Digit(n % 10)>>

\* the unsolicited result line "+HTTPACTION: <method>,<status>,<datalen>"
ActionLine(method, status, datalen) ==
    <<"+", "H", "T", "T", "P", "A", "C", "T", "I", "O", "N", ":", " ">>
        \o Decimal(method) \o <<",">> \o Decimal(status) \o <<",">> \o Decimal(datalen)

\* needle in hay, for Python strings
Contains(needle, hay) ==
    \E i \in 1..(Len(hay) - Len(needle) + 1) :
        SubSeq(hay, i, i + Len(needle) - 1) = needle

\* send_at_command: the lines read until the expected one, each followed by "\n";
\* the modem answers "OK" to the command and reports the action result later
ActionResponse(status, datalen) ==
    <<"O", "K", "\n">> \o ActionLine(1, status, datalen) \o <<"\n">>

\* if success and "1,200" in response: return True  else: return False
PostSucceeded(ok, response) == ok /\ Contains(<<"1", ",", "2", "0", "0">>, response)

\* status and data length the server and modem may report
Statuses == {200, 301, 404}
DataLens == {0, 200}

(***************************************************************************)
(* communications_thread: CommunicationsThread.forward_data_to_cloud       *)
(***************************************************************************)
\* the table scan of SQLite goes through the rows by rowid (there is no index
\* and no ORDER BY) and stops at the LIMIT: the n smallest elements of S, ascending
RECURSIVE FirstN(_, _)
FirstN(S, n) ==
    IF n = 0 \/ S = {} THEN <<>>
    ELSE LET m == CHOOSE x \in S : \A y \in S : x <= y
         IN <<m>> \o FirstN(S \ {m}, n - 1)

\* a query without its WHERE clause
SelectAny(st) == FirstN(DOMAIN st, BatchLimit)

\* SELECT log_id, ... FROM fatigue_log WHERE sent_to_cloud = 0 LIMIT 50;
\* log_ids_to_update = [row[0] for row in records]
SelectUnsent(st) == FirstN({i \in DOMAIN st : st[i].sent_to_cloud = 0}, BatchLimit)

\* the log_ids of a batch, as the IN (...) list of the UPDATE reads them
Ids(batch) == {batch[k] : k \in DOMAIN batch}

\* fetch the unsent records; return if there are none
EgressSelect ==
    /\ pcE = "idle"
    /\ LET ids == SelectUnsent(store)
       IN /\ ids # <<>>
          /\ log_ids_to_update' = ids
    /\ pcE' = "post"
    /\ UNCHANGED <<success, http_status, cloud, busVars, queueVars, procVars, dbVars, now, archVars, alert_q, watchVars, packetVars, latchVars, commVars, modemVars, connVars>>

\* upstream counts one more accepted POST for each row of the batch; the count
\* tells none, one and more than one apart and stays at 2
Accept(c, ids) ==
    [i \in DOMAIN c |-> IF i \in Ids(ids) /\ c[i] < 2 THEN c[i] + 1 ELSE c[i]]

\* success = self._http_post_payload(json_payload): the dialogue ends before the
\* POST (not registered, no OK after the payload), or the POST is issued and the
\* server answers; the action result reaches the gateway within 30 s or not;
\* an exception of the serial port leaves forward_data_to_cloud and run
EgressPost ==
    /\ pcE = "post"
    /\ \/ /\ success' = FALSE
          /\ http_status' = 0
          /\ pcE' = "commit"
          /\ UNCHANGED cloud
       \/ \E status \in Statuses, datalen \in DataLens, arrives \in BOOLEAN :
            /\ cloud' = IF status = 200 THEN Accept(cloud, log_ids_to_update) ELSE cloud
            /\ http_status' = IF arrives THEN status ELSE 0
            /\ success' = PostSucceeded(arrives, ActionResponse(status, datalen))
            /\ pcE' = "commit"
       \/ /\ pcE' = "dead"
          /\ UNCHANGED <<success, http_status, cloud>>
    /\ UNCHANGED <<log_ids_to_update, busVars, queueVars, procVars, dbVars, now, archVars, alert_q, watchVars, packetVars, latchVars, commVars, modemVars, connVars>>

\* UPDATE fatigue_log SET sent_to_cloud = 1 WHERE sent_to_cloud = 0
MarkAllUnsent(st, ids) ==
    [i \in DOMAIN st |-> [st[i] EXCEPT !.sent_to_cloud = 1]]

\* UPDATE fatigue_log SET sent_to_cloud = 1 WHERE log_id IN (ids)
MarkSent(st, ids) ==
    [i \in DOMAIN st |-> IF i \in Ids(ids) THEN [st[i] EXCEPT !.sent_to_cloud = 1] ELSE st[i]]

\* if success: UPDATE ...; commit (a store error leaves run)  else: nothing;
\* db_conn.close() and return: the locals of the call are gone
EgressCommit ==
    /\ pcE = "commit"
    /\ IF success
       THEN \/ /\ store' = MarkSent(store, log_ids_to_update)
               /\ pcE' = "idle"
            \/ /\ pcE' = "dead"
               /\ UNCHANGED store
       ELSE /\ pcE' = "idle"
            /\ UNCHANGED store
    /\ log_ids_to_update' = <<>>
    /\ success' = FALSE
    /\ http_status' = 0
    /\ UNCHANGED <<seq, cloud, busVars, queueVars, procVars, now, archVars, alert_q, watchVars, packetVars, latchVars, commVars, modemVars, connVars>>

(***************************************************************************)
(* communications_thread: CommunicationsThread._http_post_payload, command *)
(* by command (run reaches the upload only after a setup_sms that returned *)
(* True, so self.sim_manager and its serial port exist)                    *)
(***************************************************************************)
\* how a send_at_command call ends: the expected response is read, the timeout
\* passes without it, ser.write raises, or ser.readline raises after the write
Outcomes == {"expected", "unexpected", "write_raises", "read_raises"}

\* what the modem may answer to AT+CREG? ("" for no answer within 5 s)
CregAnswers == {"+CREG: 0,1", "+CREG: 0,5", "+CREG: 0,2", ""}

\* lines 178-189: bearer configure, bearer open, HTTP init, context id, URL,
\* content type, payload-length declaration
Dialogue ==
    << "AT+SAPBR=3,1,\"APN\"", "AT+SAPBR=1,1", "AT+HTTPINIT", "AT+HTTPPARA=\"CID\",1",
       "AT+HTTPPARA=\"URL\"", "AT+HTTPPARA=\"CONTENT\"", "AT+HTTPDATA" >>

\* self.ser.write((command + '\r\n').encode()): the command is on the line unless write raised
Written(log, command, outcome) ==
    IF outcome = "write_raises" THEN log ELSE Append(log, command)

\* the call raised
Raised(outcome) == outcome \in {"write_raises", "read_raises"}

\* the number of commands of lines 178-189 written so far
DialogueDone(log) == Len(SelectSeq(log, LAMBDA c : c # "AT+CREG?"))

\* if not self.sim_manager: return False  -- it exists; try:
HttpEntry ==
    /\ pcH = "idle"
    /\ pcE = "post"
    /\ pcH' = "creg"
    /\ at_log' = <<>>
    /\ cmd_failed' = FALSE
    /\ raising' = FALSE
    /\ UNCHANGED <<egressVars, busVars, queueVars, procVars, dbVars, now, archVars, alert_q, watchVars, packetVars, latchVars, commVars, connVars>>

\* if "+CREG: 0,1" not in send_at_command("AT+CREG?")[1] and ...
HttpCreg ==
    /\ pcH = "creg"
    /\ \/ \E answer \in CregAnswers :
            /\ at_log' = Append(at_log, "AT+CREG?")
            /\ pcH' = IF answer = "+CREG: 0,1" THEN "session" ELSE "creg_again"
            /\ UNCHANGED raising
       \/ \E outcome \in {"write_raises", "read_raises"} :
            /\ at_log' = Written(at_log, "AT+CREG?", outcome)
            /\ raising' = TRUE
            /\ pcH' = "term"
    /\ UNCHANGED <<cmd_failed, egressVars, busVars, queueVars, procVars, dbVars, now, archVars, alert_q, watchVars, packetVars, latchVars, commVars, connVars>>

\* ... and "+CREG: 0,5" not in send_at_command("AT+CREG?")[1]: return False
HttpCregAgain ==
    /\ pcH = "creg_again"
    /\ \/ \E answer \in CregAnswers :
            /\ at_log' = Append(at_log, "AT+CREG?")
            /\ pcH' = IF answer = "+CREG: 0,5" THEN "session" ELSE "term"
            /\ UNCHANGED raising
       \/ \E outcome \in {"write_raises", "read_raises"} :
            /\ at_log' = Written(at_log, "AT+CREG?", outcome)
            /\ raising' = TRUE
            /\ pcH' = "term"
    /\ UNCHANGED <<cmd_failed, egressVars, busVars, queueVars, procVars, dbVars, now, archVars, alert_q, watchVars, packetVars, latchVars, commVars, connVars>>

\* self.sim_manager.send_at_command(...) for the next command of lines 178-189:
\* what the call returns is not looked at
HttpSession ==
    /\ pcH = "session"
    /\ LET k == DialogueDone(at_log) + 1
       IN \E outcome \in Outcomes :
            /\ at_log' = Written(at_log, Dialogue[k], outcome)
            /\ cmd_failed' = (cmd_failed \/ outcome = "unexpected")
            /\ raising' = Raised(outcome)
            /\ pcH' = IF Raised(outcome) THEN "term"
                      ELSE IF k = Len(Dialogue) THEN "payload" ELSE "session"
    /\ UNCHANGED <<egressVars, busVars, queueVars, procVars, dbVars, now, archVars, alert_q, watchVars, packetVars, latchVars, commVars, connVars>>

\* self.sim_manager.ser.write(payload.encode())
HttpPayload ==
    /\ pcH = "payload"
    /\ \E raises \in BOOLEAN :
         /\ raising' = raises
         /\ pcH' = IF raises THEN "term" ELSE "payload_ok"
    /\ UNCHANGED <<at_log, cmd_failed, egressVars, busVars, queueVars, procVars, dbVars, now, archVars, alert_q, watchVars, packetVars, latchVars, commVars, connVars>>

\* if not self.sim_manager.send_at_command("")[0]: return False
HttpPayloadOk ==
    /\ pcH = "payload_ok"
    /\ \E outcome \in Outcomes :
         /\ at_log' = Written(at_log, "", outcome)
         /\ raising' = Raised(outcome)
         /\ pcH' = IF outcome = "expected" THEN "action" ELSE "term"
    /\ UNCHANGED <<cmd_failed, egressVars, busVars, queueVars, procVars, dbVars, now, archVars, alert_q, watchVars, packetVars, latchVars, commVars, connVars>>

\* success, response = send_at_command("AT+HTTPACTION=1", "+HTTPACTION", timeout=30);
\* return True if success and "1,200" in response, else return False
HttpAction ==
    /\ pcH = "action"
    /\ \/ \E status \in Statuses, datalen \in DataLens, arrives \in BOOLEAN :
            /\ at_log' = Append(at_log, "AT+HTTPACTION=1")
            /\ success' = PostSucceeded(arrives, ActionResponse(status, datalen))
            /\ http_status' = IF arrives THEN status ELSE 0
            /\ UNCHANGED raising
       \/ \E outcome \in {"write_raises", "read_raises"} :
            /\ at_log' = Written(at_log, "AT+HTTPACTION=1", outcome)
            /\ raising' = TRUE
            /\ UNCHANGED <<success, http_status>>
    /\ pcH' = "term"
    /\ UNCHANGED <<cmd_failed, pcE, log_ids_to_update, cloud, busVars, queueVars, procVars, dbVars, now, archVars, alert_q, watchVars, packetVars, latchVars, commVars, connVars>>

\* finally: self.sim_manager.send_at_command("AT+HTTPTERM")
HttpTerm ==
    /\ pcH = "term"
    /\ \E outcome \in Outcomes :
         /\ at_log' = Written(at_log, "AT+HTTPTERM", outcome)
         /\ raising' = (raising \/ Raised(outcome))
         /\ pcH' = IF Raised(outcome) THEN "done" ELSE "close"
    /\ UNCHANGED <<cmd_failed, egressVars, busVars, queueVars, procVars, dbVars, now, archVars, alert_q, watchVars, packetVars, latchVars, commVars, connVars>>

\* self.sim_manager.send_at_command("AT+SAPBR=0,1"); the call returns its
\* value or goes on raising
HttpClose ==
    /\ pcH = "close"
    /\ \E outcome \in Outcomes :
         /\ at_log' = Written(at_log, "AT+SAPBR=0,1", outcome)
         /\ raising' = (raising \/ Raised(outcome))
    /\ pcH' = "done"
    /\ UNCHANGED <<cmd_failed, egressVars, busVars, queueVars, procVars, dbVars, now, archVars, alert_q, watchVars, packetVars, latchVars, commVars, connVars>>

(***************************************************************************)
(* archive: archive_and_purge                                              *)
(***************************************************************************)
\* a fetched row of fatigue_log
Row(st, i) == [log_id |-> i, timestamp |-> st[i].timestamp, sent_to_cloud |-> st[i].sent_to_cloud]

\* ... WHERE timestamp < ?
OlderThan(st, cutoff) == {i \in DOMAIN st : st[i].timestamp < cutoff}

\* cutoff_date = (utcnow() - timedelta(days=ARCHIVE_DAYS_THRESHOLD)).isoformat()
ArchStart ==
    /\ pcA = "idle"
    /\ cutoff_date' = now - ARCHIVE_DAYS_THRESHOLD
    /\ pcA' = "select"
    /\ UNCHANGED <<records, archived, busVars, queueVars, procVars, dbVars, now, egressVars, alert_q, watchVars, packetVars, latchVars, commVars, modemVars, connVars>>

\* connect; SELECT * FROM fatigue_log WHERE timestamp < ?; the run ends if
\* nothing is old enough or the store cannot be read (its locals are gone then)
ArchSelect ==
    /\ pcA = "select"
    /\ \/ /\ OlderThan(store, cutoff_date) # {}
          /\ records' = {Row(store, i) : i \in OlderThan(store, cutoff_date)}
          /\ pcA' = "write"
          /\ UNCHANGED cutoff_date
       \/ /\ pcA' = "idle"
          /\ cutoff_date' = 0
          /\ UNCHANGED records
    /\ UNCHANGED <<archived, busVars, queueVars, procVars, dbVars, now, egressVars, alert_q, watchVars, packetVars, latchVars, commVars, modemVars, connVars>>

\* a run that goes on to the DELETE although the file could not be written
ArchWriteUnchecked ==
    /\ pcA = "write"
    /\ \/ archived' = archived \cup records
       \/ UNCHANGED archived
    /\ pcA' = "delete"
    /\ UNCHANGED <<cutoff_date, records, busVars, queueVars, procVars, dbVars, now, egressVars, alert_q, watchVars, packetVars, latchVars, commVars, modemVars, connVars>>

\* with gzip.open(...) as f: header and rows are written and the file is closed;
\* an exception ends the run before the purge
ArchWrite ==
    /\ pcA = "write"
    /\ \/ /\ archived' = archived \cup records
          /\ pcA' = "delete"
          /\ UNCHANGED <<cutoff_date, records>>
       \/ /\ pcA' = "idle"
          /\ cutoff_date' = 0
          /\ records' = {}
          /\ UNCHANGED archived
    /\ UNCHANGED <<busVars, queueVars, procVars, dbVars, now, egressVars, alert_q, watchVars, packetVars, latchVars, commVars, modemVars, connVars>>

\* the purge with <= in place of <
ArchDeleteInclusive ==
    /\ pcA = "delete"
    /\ \/ store' = [i \in {j \in DOMAIN store : store[j].timestamp > cutoff_date} |-> store[i]]
       \/ UNCHANGED store
    /\ pcA' = "idle"
    /\ cutoff_date' = 0
    /\ records' = {}
    /\ UNCHANGED <<seq, archived, busVars, queueVars, procVars, now, egressVars, alert_q, watchVars, packetVars, latchVars, commVars, modemVars, connVars>>

\* with conn: DELETE FROM fatigue_log WHERE timestamp < ?   (committed, or rolled back on an error)
ArchDelete ==
    /\ pcA = "delete"
    /\ \/ store' = [i \in DOMAIN store \ OlderThan(store, cutoff_date) |-> store[i]]
       \/ UNCHANGED store
    /\ pcA' = "idle"
    /\ cutoff_date' = 0
    /\ records' = {}
    /\ UNCHANGED <<seq, archived, busVars, queueVars, procVars, now, egressVars, alert_q, watchVars, packetVars, latchVars, commVars, modemVars, connVars>>

(***************************************************************************)
(* Thread life: the ends of the run methods                                *)
(***************************************************************************)
\* threads, in the order of main()'s list
Threads == <<"LoRaWorker", "nRFWorker", "DataProcessor", "Communications">>

\* t.is_alive(): run has not ended
IsAlive(t) ==
    CASE t \in Workers -> pc[t] # "ended"
      [] t = "DataProcessor" -> pcP # "ended"
      [] t = "Communications" -> pcC # "ended"

\* LoRaWorkerThread.run: if not self.lora: return  (SX127x() raised in the
\* constructor); nRFWorkerThread.run goes straight to its loop
WorkerStart(w) ==
    /\ pc[w] = "start"
    /\ \E created \in BOOLEAN :
         pc' = [pc EXCEPT ![w] = IF w = "LoRaWorker" /\ ~created THEN "ended" ELSE "wait"]
    /\ UNCHANGED <<lock, spi_open, packet_event, is_setup, exc, queueVars, procVars, dbVars, now,
                   egressVars, archVars, alert_q, watchVars, packetVars, latchVars, commVars, modemVars, connVars>>

\* while not self.shutdown_event.is_set(): the worker, back from
\* packet_event.wait(timeout=1.0), finds the latch set and run returns
WorkerStop(w) ==
    /\ pc[w] = "wait"
    /\ shutdown_event
    /\ pc' = [pc EXCEPT ![w] = "ended"]
    /\ UNCHANGED <<lock, spi_open, packet_event, is_setup, exc, queueVars, procVars, dbVars, now,
                   egressVars, archVars, alert_q, watchVars, packetVars, latchVars, commVars, modemVars, connVars>>

\* DataProcessingThread.run: while not self.shutdown_event.is_set() fails, db_conn.close()
ProcStop ==
    /\ pcP = "top"
    /\ shutdown_event
    /\ pcP' = "ended"
    /\ UNCHANGED <<processed_something, hi_seen_empty, hi_waiting, busVars, queueVars, dbVars, now,
                   egressVars, archVars, alert_q, watchVars, packetVars, latchVars, commVars, modemVars, connVars>>

(***************************************************************************)
(* communications_thread: CommunicationsThread.run                         *)
(***************************************************************************)
\* while not self.shutdown_event.is_set(): if not is_sms_ready: is_sms_ready =
\* self.setup_sms(); if not is_sms_ready: self.shutdown_event.wait(10); continue.
\* With the latch set the loop is left: sim_manager.close(), run returns.
CommLoop ==
    /\ pcC = "loop"
    /\ IF shutdown_event
       THEN /\ pcC' = "ended"
            /\ UNCHANGED is_sms_ready
       ELSE \E ready \in BOOLEAN :
              /\ is_sms_ready' = (is_sms_ready \/ ready)
              /\ pcC' = IF is_sms_ready' THEN "get" ELSE "setup_wait"
    /\ UNCHANGED <<shutdown_event, pcS, alert_message, alert_q, busVars, queueVars, procVars, dbVars,
                   now, egressVars, archVars, packetVars, latchVars, commVars, modemVars, connVars>>

\* self.shutdown_event.wait(10); continue
CommSetupWait ==
    /\ pcC = "setup_wait"
    /\ pcC' = "loop"
    /\ UNCHANGED <<shutdown_event, pcS, is_sms_ready, alert_message, alert_q, busVars, queueVars,
                   procVars, dbVars, now, egressVars, archVars, packetVars, latchVars, commVars, modemVars, connVars>>

\* alert_message = self.alert_q.get(block=True, timeout=1.0); except queue.Empty: pass
CommGet ==
    /\ pcC = "get"
    /\ IF alert_q # <<>>
       THEN /\ alert_message' = Head(alert_q)
            /\ alert_q' = Tail(alert_q)
            /\ pcC' = "send"
       ELSE /\ pcC' = "upload"
            /\ UNCHANGED <<alert_message, alert_q>>
    /\ UNCHANGED <<shutdown_event, pcS, is_sms_ready, busVars, queueVars, procVars, dbVars,
                   now, egressVars, archVars, packetVars, latchVars, commVars, modemVars, connVars>>

\* if not self.send_sms(ALERT_RECIPIENT_NUMBER, alert_message): ... else task_done();
\* a serial error raised by send_sms is caught by except Exception: is_sms_ready = False
CommSend ==
    /\ pcC = "send"
    /\ \E result \in {"sent", "failed", "raises"} :
         /\ pcC' = IF result = "failed" THEN "requeue" ELSE "upload"
         /\ is_sms_ready' = (is_sms_ready /\ result # "raises")
         /\ sms_result' = IF result = "raises" THEN "raised" ELSE result
    /\ UNCHANGED <<shutdown_event, pcS, alert_message, alert_q, busVars, queueVars, procVars, dbVars,
                   now, egressVars, archVars, packetVars, latchVars, upload_due, modemVars, connVars>>

\* self.alert_q.put(alert_message)  -- block=True, no timeout: waits for a free
\* slot; then is_sms_ready = False and task_done()
CommRequeue ==
    /\ pcC = "requeue"
    /\ Len(alert_q) < AlertCap
    /\ alert_q' = Append(alert_q, alert_message)
    /\ is_sms_ready' = FALSE
    /\ pcC' = "upload"
    /\ UNCHANGED <<shutdown_event, pcS, alert_message, busVars, queueVars, procVars, dbVars,
                   now, egressVars, archVars, packetVars, latchVars, commVars, modemVars, connVars>>

\* if time.time() - last_cloud_upload_time > 900: self.forward_data_to_cloud();
\* last_cloud_upload_time = time.time()
\* -- outside the try block: what the upload raises (sqlite3, serial) ends run
CommUpload ==
    /\ pcC = "upload"
    /\ IF upload_due
       THEN \E result \in {"returns", "raises"} :
              /\ pcC' = IF result = "raises" THEN "ended" ELSE "loop"
              /\ upload_due' = (result = "raises")
       ELSE /\ pcC' = "loop"
            /\ UNCHANGED upload_due
    /\ sms_result' = "none"
    /\ UNCHANGED <<shutdown_event, pcS, is_sms_ready, alert_message, alert_q, busVars, queueVars,
                   procVars, dbVars, now, egressVars, archVars, packetVars, latchVars, modemVars, connVars>>

\* the clock of time.time() passes last_cloud_upload_time + 900
UploadTimer ==
    /\ ~upload_due
    /\ upload_due' = TRUE
    /\ UNCHANGED <<busVars, queueVars, procVars, dbVars, now, egressVars, archVars, alert_q,
                   watchVars, packetVars, latchVars, sms_result, modemVars, connVars>>

(***************************************************************************)
(* main(): the watchdog loop and the shutdown                              *)
(***************************************************************************)
\* f"FATAL: Gateway software failure. Thread '{t.name}' terminated."
WatchdogAlert(t) == [kind |-> "watchdog", text |-> <<"FATAL: Thread '", t, "' terminated.">>]

\* index of the first thread of the list with is_alive() false, 0 if all are alive
FirstDead ==
    LET dead == {i \in 1..Len(Threads) : ~IsAlive(Threads[i])}
    IN IF dead = {} THEN 0 ELSE CHOOSE i \in dead : \A j \in dead : i <= j

\* a poll that reports the dead thread without setting the latch
SupPollNoLatch ==
    /\ pcS = "poll"
    /\ IF shutdown_event
       THEN /\ pcS' = "finally"
            /\ UNCHANGED <<alert_q, shutdown_event>>
       ELSE /\ pcS' = "sleep"
            /\ IF FirstDead # 0
               THEN /\ alert_q' = Put(alert_q, AlertCap, WatchdogAlert(Threads[FirstDead]))
                    /\ UNCHANGED shutdown_event
               ELSE UNCHANGED <<alert_q, shutdown_event>>
    /\ UNCHANGED <<pcC, is_sms_ready, alert_message, busVars, queueVars, procVars, dbVars,
                   now, egressVars, archVars, packetVars, latchVars, commVars, modemVars, connVars>>

\* while not shutdown_event.is_set(): for t in threads: if not t.is_alive():
\* alert_queue.put(alert_message, block=False) (queue.Full is logged);
\* shutdown_event.set(); break
SupPoll ==
    /\ pcS = "poll"
    /\ IF shutdown_event
       THEN /\ pcS' = "finally"
            /\ UNCHANGED <<alert_q, shutdown_event>>
       ELSE /\ pcS' = "sleep"
            /\ IF FirstDead # 0
               THEN /\ alert_q' = Put(alert_q, AlertCap, WatchdogAlert(Threads[FirstDead]))
                    /\ shutdown_event' = TRUE
               ELSE UNCHANGED <<alert_q, shutdown_event>>
    /\ UNCHANGED <<pcC, is_sms_ready, alert_message, busVars, queueVars, procVars, dbVars,
                   now, egressVars, archVars, packetVars, latchVars, commVars, modemVars, connVars>>

\* time.sleep(5.0)
SupSleep ==
    /\ pcS = "sleep"
    /\ pcS' = "poll"
    /\ UNCHANGED <<shutdown_event, pcC, is_sms_ready, alert_message, alert_q, busVars, queueVars,
                   procVars, dbVars, now, egressVars, archVars, packetVars, latchVars, commVars, modemVars, connVars>>

\* except KeyboardInterrupt: the operator's Ctrl+C reaches the main thread in its loop
SupInterrupt ==
    /\ pcS \in {"poll", "sleep"}
    /\ pcS' = "finally"
    /\ UNCHANGED <<shutdown_event, pcC, is_sms_ready, alert_message, alert_q, busVars, queueVars,
                   procVars, dbVars, now, egressVars, archVars, packetVars, latchVars, commVars, modemVars, connVars>>

\* finally: shutdown_event.set()
SupFinally ==
    /\ pcS = "finally"
    /\ shutdown_event' = TRUE
    /\ pcS' = "join"
    /\ UNCHANGED <<pcC, is_sms_ready, alert_message, alert_q, busVars, queueVars,
                   procVars, dbVars, now, egressVars, archVars, packetVars, latchVars, commVars, modemVars, connVars>>

\* for t in threads: t.join()  -- no timeout: returns when every run has ended;
\* cleanup_gpio() and the process exits
SupJoin ==
    /\ pcS = "join"
    /\ \A i \in 1..Len(Threads) : ~IsAlive(Threads[i])
    /\ pcS' = "exited"
    /\ UNCHANGED <<shutdown_event, pcC, is_sms_ready, alert_message, alert_q, busVars, queueVars,
                   procVars, dbVars, now, egressVars, archVars, packetVars, latchVars, commVars, modemVars, connVars>>

(***************************************************************************)
(* processing_thread: the packet handlers, byte by byte                    *)
(* (a packet is a sequence of bytes 0..255; fatigue_data holds the columns *)
(* decoded from the bytes, which the pipelines above do not look at)       *)
(***************************************************************************)
RECURSIVE CalcSize(_)
\* struct.calcsize of a '<' format: the field sizes added up, without padding
CalcSize(format) == IF format = <<>> THEN 0 ELSE Head(format) + CalcSize(Tail(format))

\* '<H B III f f B', each field by its size in bytes
LoraFormat == <<2, 1, 4, 4, 4, 4, 4, 1>>

\* '<BhH'
NrfFormat == <<1, 2, 2>>

\* offset of the k-th field of a '<' format
FieldOffset(format, k) == CalcSize(SubSeq(format, 1, k - 1))

RECURSIVE UnpackUnsigned(_, _, _)
\* 'B', 'H', 'I' under '<': the little-endian value of size bytes from offset
UnpackUnsigned(packet, offset, size) ==
    IF size = 0 THEN 0
    ELSE packet[offset + 1] + 256 * UnpackUnsigned(packet, offset + 1, size - 1)

\* 'h' under '<': the two's complement reading of the same bytes
UnpackSigned(packet, offset, size) ==
    LET u == UnpackUnsigned(packet, offset, size)
    IN IF u >= 2 ^ (8 * size - 1) THEN u - 2 ^ (8 * size) ELSE u

\* a gate that lets longer packets through
UnpackFailsShort(packet, format) == Len(packet) < CalcSize(format)

\* struct.unpack raises struct.error unless the buffer has the size of the format
UnpackFails(packet, format) == Len(packet) # CalcSize(format)

\* the fields of a native-mode unpack ('H B III f f B' without the '<'): one
\* byte of padding in front of the counters
UnpackLoraAligned(packet) ==
    [node_id      |-> UnpackUnsigned(packet, FieldOffset(LoraFormat, 1), LoraFormat[1]),
     bin_1_cycles |-> UnpackUnsigned(packet, FieldOffset(LoraFormat, 3) + 1, LoraFormat[3]),
     bin_2_cycles |-> UnpackUnsigned(packet, FieldOffset(LoraFormat, 4) + 1, LoraFormat[4]),
     bin_3_cycles |-> UnpackUnsigned(packet, FieldOffset(LoraFormat, 5) + 1, LoraFormat[5])]

\* node_id, _, bin1, bin2, bin3, _, _, _ = struct.unpack('<H B III f f B', packet)
UnpackLora(packet) ==
    [node_id      |-> UnpackUnsigned(packet, FieldOffset(LoraFormat, 1), LoraFormat[1]),
     bin_1_cycles |-> UnpackUnsigned(packet, FieldOffset(LoraFormat, 3), LoraFormat[3]),
     bin_2_cycles |-> UnpackUnsigned(packet, FieldOffset(LoraFormat, 4), LoraFormat[4]),
     bin_3_cycles |-> UnpackUnsigned(packet, FieldOffset(LoraFormat, 5), LoraFormat[5])]

\* x / 100.0, kept as the fraction
Hundredths(x) == [num |-> x, den |-> 100]

\* an unpack that reads the temperature as 'H'
UnpackNrfUnsigned(payload) ==
    [node_id       |-> UnpackUnsigned(payload, FieldOffset(NrfFormat, 1), NrfFormat[1]),
     temperature_c |-> Hundredths(UnpackUnsigned(payload, FieldOffset(NrfFormat, 2), NrfFormat[2])),
     humidity_rh   |-> Hundredths(UnpackUnsigned(payload, FieldOffset(NrfFormat, 3), NrfFormat[3]))]

\* node_id, temp_scaled, hum_scaled = struct.unpack('<BhH', payload);
\* temperature = temp_scaled / 100.0; humidity = hum_scaled / 100.0
UnpackNrf(payload) ==
    [node_id       |-> UnpackUnsigned(payload, FieldOffset(NrfFormat, 1), NrfFormat[1]),
     temperature_c |-> Hundredths(UnpackSigned(payload, FieldOffset(NrfFormat, 2), NrfFormat[2])),
     humidity_rh   |-> Hundredths(UnpackUnsigned(payload, FieldOffset(NrfFormat, 3), NrfFormat[3]))]

\* the data dictionary handed to _check_alerting_rules
AlertData(fields) ==
    [bin_1_cycles |-> fields.bin_1_cycles,
     bin_2_cycles |-> fields.bin_2_cycles,
     bin_3_cycles |-> fields.bin_3_cycles]

RECURSIVE Format(_, _, _, _)
\* rule['alert_message'].format(node=..., value=..., threshold=...); the template
\* is the sequence of its literal pieces and replacement fields
Format(template, node, value, threshold) ==
    IF template = <<>> THEN <<>>
    ELSE LET piece == Head(template)
             text == CASE piece = "{node}" -> Decimal(node)
                       [] piece = "{value}" -> Decimal(value)
                       [] piece = "{threshold}" -> Decimal(threshold)
                       [] OTHER -> <<piece>>
         IN text \o Format(Tail(template), node, value, threshold)

\* a comparison that also fires at the threshold
RuleFiresAtThreshold(rule, node_id, data) ==
    /\ rule.node_id = node_id
    /\ rule.field_to_monitor \in DOMAIN data
    /\ data[rule.field_to_monitor] >= rule.threshold

\* if rule.get('node_id') == node_id: value = data.get(field);
\* if value is not None and value > threshold:
RuleFires(rule, node_id, data) ==
    /\ rule.node_id = node_id
    /\ rule.field_to_monitor \in DOMAIN data
    /\ data[rule.field_to_monitor] > rule.threshold

\* the alert a rule that fires puts on the alert queue
RenderAlert(rule, node_id, data) ==
    RuleAlert(Format(rule.alert_message, node_id, data[rule.field_to_monitor], rule.threshold))

RECURSIVE CheckAlertingRules(_, _, _, _)
\* _check_alerting_rules: for rule in self.rules: ... self.alert_q.put(alert_msg, block=False)
CheckAlertingRules(rls, node_id, data, q) ==
    IF rls = <<>> THEN q
    ELSE LET rule == Head(rls)
             q1 == IF RuleFires(rule, node_id, data)
                   THEN Put(q, AlertCap, RenderAlert(rule, node_id, data))
                   ELSE q
         IN CheckAlertingRules(Tail(rls), node_id, data, q1)

\* the columns a packet's row takes from its bytes
InsertData(fd, id, fields) ==
    [i \in DOMAIN fd \cup {id} |-> IF i = id THEN fields ELSE fd[i]]

\* a handler whose store-error branch falls through to the rule evaluation
ProcessLoraPacketNoReturn ==
    /\ pcP = "hi_proc"
    /\ IF UnpackFails(in_packet, LoraFormat)
       THEN /\ call_result' = "returned"
            /\ UNCHANGED <<store, seq, fatigue_data, alert_q>>
       ELSE LET fields == UnpackLora(in_packet)
            IN /\ IF store_up
                  THEN /\ seq' = seq + 1
                       /\ store' = InsertFatigue(store, seq + 1, now)
                       /\ fatigue_data' = InsertData(fatigue_data, seq + 1, fields)
                  ELSE UNCHANGED <<store, seq, fatigue_data>>
               /\ alert_q' = CheckAlertingRules(rules, fields.node_id, AlertData(fields), alert_q)
               /\ call_result' = "returned"
    /\ pcP' = IF call_result' = "raised" THEN "top" ELSE "hi_check"
    /\ processed_something' = (processed_something \/ call_result' = "returned")
    /\ UNCHANGED <<in_kind, in_packet, rules, store_up, environment_log, now>>
    /\ UNCHANGED <<hi_seen_empty, hi_waiting, busVars, queueVars, egressVars, archVars, watchVars, latchVars, commVars, modemVars, connVars>>

\* self._process_lora_packet(lora_packet) as run calls it with the packet taken
\* from the high-priority queue: unpack (struct.error: log, return); INSERT and
\* commit (sqlite3.Error: log, rollback, return - a rollback that raises leaves
\* the call with that exception); then _check_alerting_rules.  After the call
\* run goes on with task_done() and processed_something = True, or, through its
\* except Exception, with the next iteration.
ProcessLoraPacket ==
    /\ pcP = "hi_proc"
    /\ IF UnpackFails(in_packet, LoraFormat)
       THEN /\ call_result' = "returned"
            /\ UNCHANGED <<store, seq, fatigue_data, alert_q>>
       ELSE LET fields == UnpackLora(in_packet)
            IN IF store_up
               THEN /\ seq' = seq + 1
                    /\ store' = InsertFatigue(store, seq + 1, now)
                    /\ fatigue_data' = InsertData(fatigue_data, seq + 1, fields)
                    /\ alert_q' = CheckAlertingRules(rules, fields.node_id, AlertData(fields), alert_q)
                    /\ call_result' = "returned"
               ELSE /\ \E rollback_ok \in BOOLEAN :
                         call_result' = IF rollback_ok THEN "returned" ELSE "raised"
                    /\ UNCHANGED <<store, seq, fatigue_data, alert_q>>
    /\ pcP' = IF call_result' = "raised" THEN "top" ELSE "hi_check"
    /\ processed_something' = (processed_something \/ call_result' = "returned")
    /\ UNCHANGED <<in_kind, in_packet, rules, store_up, environment_log, now>>
    /\ UNCHANGED <<hi_seen_empty, hi_waiting, busVars, queueVars, egressVars, archVars, watchVars, latchVars, commVars, modemVars, connVars>>

\* _process_nrf_packet(payload): if len(payload) != 5: log, return; unpack;
\* INSERT INTO environment_log and commit (sqlite3.Error: log, rollback)
ProcessNrfPacket ==
    /\ pcP = "lo_proc"
    /\ IF Len(in_packet) # 5 \/ UnpackFails(in_packet, NrfFormat)
       THEN /\ call_result' = "returned"
            /\ UNCHANGED environment_log
       ELSE IF store_up
            THEN /\ environment_log' =
                        Append(environment_log, [received_at |-> now] @@ UnpackNrf(in_packet))
                 /\ call_result' = "returned"
            ELSE /\ \E rollback_ok \in BOOLEAN :
                      call_result' = IF rollback_ok THEN "returned" ELSE "raised"
                 /\ UNCHANGED environment_log
    /\ pcP' = IF call_result' = "raised" THEN "top" ELSE "lo_check"
    /\ processed_something' = (processed_something \/ call_result' = "returned")
    /\ UNCHANGED <<in_kind, in_packet, rules, store_up, store, seq, fatigue_data, alert_q, now>>
    /\ UNCHANGED <<hi_seen_empty, hi_waiting, busVars, queueVars, egressVars, archVars, watchVars, latchVars, commVars, modemVars, connVars>>

(***************************************************************************)
(* The sqlite3 connections and the threads that use them                   *)
(***************************************************************************)
\* self.db_conn of DataProcessingThread and db_conn of forward_data_to_cloud
Connections == {"processor", "egress"}

\* the thread that runs the code of each activity: Thread.run of the objects
\* named "DataProcessor" and "Communications"
RunThread(u) == IF u = "processor" THEN "DataProcessor" ELSE "Communications"

\* no connection has been created yet
NoConnections == [u \in Connections |-> "none"]

\* after main has built its thread list: DataProcessingThread.__init__ has
\* called sqlite3.connect in the thread of main; the egress has no connection
\* between two uploads
Constructed == [NoConnections EXCEPT !["processor"] = "MainThread"]

vars == <<lock, spi_open, packet_event, pc, is_setup, exc, high_prio_q, low_prio_q,
          pcP, processed_something, hi_seen_empty, hi_waiting, store, seq, now,
          pcE, log_ids_to_update, success, http_status, cloud,
          pcA, cutoff_date, records, archived, alert_q,
          shutdown_event, pcS, pcC, is_sms_ready, alert_message,
          in_kind, in_packet, rules, store_up, call_result, fatigue_data, environment_log,
          pcI, irq_pending, sms_result, upload_due, pcH, at_log, cmd_failed, raising,
          conn_thread, pcD, refused>>

Init ==
    /\ lock = FALSE
    /\ spi_open = FALSE
    /\ packet_event = [w \in Workers |-> FALSE]
    /\ pc = [w \in Workers |-> "wait"]
    /\ is_setup = [w \in Workers |-> FALSE]
    /\ exc = [w \in Workers |-> FALSE]
    /\ high_prio_q = <<>>
    /\ low_prio_q = <<>>
    /\ pcP = "top"
    /\ processed_something = FALSE
    /\ hi_seen_empty = FALSE
    /\ hi_waiting = FALSE
    /\ store = <<>>
    /\ seq = 0
    /\ now = 0
    /\ pcE = "idle"
    /\ log_ids_to_update = <<>>
    /\ success = FALSE
    /\ http_status = 0
    /\ cloud = [i \in 1..MaxRows |-> 0]
    /\ pcA = "idle"
    /\ cutoff_date = 0
    /\ records = {}
    /\ archived = {}
    /\ alert_q = <<>>
    /\ shutdown_event = FALSE
    /\ pcS = "poll"
    /\ pcC = "loop"
    /\ is_sms_ready = FALSE
    /\ alert_message = NoAlert
    /\ in_kind = "none"
    /\ in_packet = <<>>
    /\ rules = <<>>
    /\ store_up = TRUE
    /\ call_result = "returned"
    /\ fatigue_data = <<>>
    /\ environment_log = <<>>
    /\ pcI = [w \in Workers |-> "idle"]
    /\ irq_pending = [w \in Workers |-> FALSE]
    /\ sms_result = "none"
    /\ upload_due = FALSE
    /\ pcH = "idle"
    /\ at_log = <<>>
    /\ cmd_failed = FALSE
    /\ raising = FALSE
    /\ conn_thread = Constructed
    /\ pcD = [u \in Connections |-> "top"]
    /\ refused = {}

WorkerStep(w) ==
    \/ Interrupt(w)
    \/ WorkerWait(w)
    \/ WorkerClear(w)
    \/ EnterAcquire(w)
    \/ EnterOpen(w)
    \/ WorkerSetup(w)
    \/ WorkerSleep(w)
    \/ WorkerRead(w)
    \/ WorkerPut(w)
    \/ ExitScope(w)
    \/ WorkerHandler(w)

ProcStep ==
    \/ ProcIterStart
    \/ ProcHiCheck
    \/ ProcHiGet
    \/ ProcLoCheck
    \/ ProcLoGet
    \/ ProcLoProcess

Next ==
    \/ \E w \in Workers : WorkerStep(w)
    \/ ProcStep

Spec == Init /\ [][Next]_vars

\* The two radios, their interrupt callbacks step by step and their workers;
\* nothing takes from the queues.
NextLatch ==
    \E w \in Workers :
        \/ InterruptTest(w)
        \/ InterruptSet(w)
        \/ WorkerWait(w)
        \/ WorkerClear(w)
        \/ EnterAcquire(w)
        \/ EnterOpen(w)
        \/ WorkerSetup(w)
        \/ WorkerSleep(w)
        \/ WorkerRead(w)
        \/ WorkerPut(w)
        \/ ExitScope(w)
        \/ WorkerHandler(w)

SpecLatch == Init /\ [][NextLatch]_vars

\* The store pipeline starts with the workers idle and the high-priority queue
\* filled by the LoRa worker; the processor drains it while the clock, the
\* egress and the archiver run.  The alert queue is full and nothing takes
\* from it: the egress is busy with the upload.
InitStore ==
    /\ lock = FALSE
    /\ spi_open = FALSE
    /\ packet_event = [w \in Workers |-> FALSE]
    /\ pc = [w \in Workers |-> "wait"]
    /\ is_setup = [w \in Workers |-> FALSE]
    /\ exc = [w \in Workers |-> FALSE]
    /\ high_prio_q \in {[i \in 1..HighCap |-> p] : p \in Payloads}
    /\ low_prio_q = <<>>
    /\ pcP = "top"
    /\ processed_something = FALSE
    /\ hi_seen_empty = FALSE
    /\ hi_waiting = FALSE
    /\ store = <<>>
    /\ seq = 0
    /\ now = 0
    /\ pcE = "idle"
    /\ log_ids_to_update = <<>>
    /\ success = FALSE
    /\ http_status = 0
    /\ cloud = [i \in 1..MaxRows |-> 0]
    /\ pcA = "idle"
    /\ cutoff_date = 0
    /\ records = {}
    /\ archived = {}
    /\ alert_q = [i \in 1..AlertCap |-> RuleAlert(<<>>)]
    /\ shutdown_event = FALSE
    /\ pcS = "poll"
    /\ pcC = "loop"
    /\ is_sms_ready = FALSE
    /\ alert_message = NoAlert
    /\ in_kind = "none"
    /\ in_packet = <<>>
    /\ rules = <<>>
    /\ store_up = TRUE
    /\ call_result = "returned"
    /\ fatigue_data = <<>>
    /\ environment_log = <<>>
    /\ pcI = [w \in Workers |-> "idle"]
    /\ irq_pending = [w \in Workers |-> FALSE]
    /\ sms_result = "none"
    /\ upload_due = FALSE
    /\ pcH = "idle"
    /\ at_log = <<>>
    /\ cmd_failed = FALSE
    /\ raising = FALSE
    /\ conn_thread = Constructed
    /\ pcD = [u \in Connections |-> "top"]
    /\ refused = {}

NextStore ==
    \/ ProcIterStart
    \/ ProcHiCheck
    \/ ProcHiGet
    \/ ProcLoCheck
    \/ Tick
    \/ EgressSelect
    \/ EgressPost
    \/ EgressCommit
    \/ ArchStart
    \/ ArchSelect
    \/ ArchWrite
    \/ ArchDelete

SpecStore == InitStore /\ [][NextStore]_vars

(***************************************************************************)
(* The packet handlers on their inputs (SpecPacket)                        *)
(***************************************************************************)
\* primary packets of the full layout: node 1 with counters 5/10/20 and
\* floats 1.0 and 2.0, node 513 with counters 16909060/20/15
LoraPackets ==
    { <<1, 0, 255,  5, 0, 0, 0,  10, 0, 0, 0,  20, 0, 0, 0,  0, 0, 128, 63,  0, 0, 0, 64,  0>>,
      <<1, 2, 7,  4, 3, 2, 1,  20, 0, 0, 0,  15, 0, 0, 0,  0, 0, 0, 0,  0, 0, 0, 0,  1>> }

\* scout payloads: node 42 at 5.00 / 18.00, node 7 at -5.00 / 100.00
NrfPackets == { <<42, 244, 1, 8, 7>>, <<7, 12, 254, 16, 39>> }

\* what the radio may hand over: a packet, a packet cut short, a packet with a byte more
Lengths(packets, cuts) ==
    packets \cup {SubSeq(p, 1, n) : p \in packets, n \in cuts} \cup {p \o <<0>> : p \in packets}

\* the template of the configured alert messages
Template == <<"N", "{node}", " val", "{value}", " thr", "{threshold}">>

\* rules the configuration may hold
RuleChoices ==
    { [node_id |-> n, field_to_monitor |-> f, threshold |-> t, alert_message |-> Template] :
        n \in {1, 2}, f \in {"bin_3_cycles", "bin_9_cycles"}, t \in {15, 20} }

RECURSIVE SeqsUpTo(_, _)
\* the sequences over S of length at most n
SeqsUpTo(S, n) ==
    IF n = 0 THEN {<<>>}
    ELSE LET shorter == SeqsUpTo(S, n - 1)
         IN shorter \cup {Append(q, x) : q \in shorter, x \in S}

\* a row that is in fatigue_log before the call
OldRow == [timestamp |-> 0, sent_to_cloud |-> 1]
OldData == [node_id |-> 9, bin_1_cycles |-> 1, bin_2_cycles |-> 2, bin_3_cycles |-> 3]

\* The processor is about to hand one packet to one of its handlers: the
\* packet, the rule set, the rows already stored, the room on the alert queue
\* and the state of the store are the inputs.
InitPacket ==
    /\ in_kind \in {"lora", "nrf"}
    /\ lock = FALSE
    /\ spi_open = FALSE
    /\ packet_event = [w \in Workers |-> FALSE]
    /\ pc = [w \in Workers |-> "wait"]
    /\ is_setup = [w \in Workers |-> FALSE]
    /\ exc = [w \in Workers |-> FALSE]
    /\ high_prio_q = <<>>
    /\ low_prio_q = <<>>
    /\ pcP = IF in_kind = "lora" THEN "hi_proc" ELSE "lo_proc"
    /\ processed_something = FALSE
    /\ hi_seen_empty = FALSE
    /\ hi_waiting = FALSE
    /\ seq \in {0, 1}
    /\ store = [i \in 1..seq |-> OldRow]
    /\ fatigue_data = [i \in 1..seq |-> OldData]
    /\ now = 1
    /\ pcE = "idle"
    /\ log_ids_to_update = <<>>
    /\ success = FALSE
    /\ http_status = 0
    /\ cloud = [i \in 1..MaxRows |-> 0]
    /\ pcA = "idle"
    /\ cutoff_date = 0
    /\ records = {}
    /\ archived = {}
    /\ alert_q \in {<<>>, [i \in 1..AlertCap |-> RuleAlert(<<>>)]}
    /\ shutdown_event = FALSE
    /\ pcS = "poll"
    /\ pcC = "loop"
    /\ is_sms_ready = FALSE
    /\ alert_message = NoAlert
    /\ in_packet \in IF in_kind = "lora"
                     THEN Lengths(LoraPackets, {5, 19, 20, 21, 23})
                     ELSE Lengths(NrfPackets, {4}) \cup Lengths(LoraPackets, {19, 21})
    /\ rules \in SeqsUpTo(RuleChoices, MaxRules)
    /\ store_up \in BOOLEAN
    /\ call_result = "returned"
    /\ environment_log = <<>>
    /\ pcI = [w \in Workers |-> "idle"]
    /\ irq_pending = [w \in Workers |-> FALSE]
    /\ sms_result = "none"
    /\ upload_due = FALSE
    /\ pcH = "idle"
    /\ at_log = <<>>
    /\ cmd_failed = FALSE
    /\ raising = FALSE
    /\ conn_thread = Constructed
    /\ pcD = [u \in Connections |-> "top"]
    /\ refused = {}

NextPacket ==
    \/ ProcessLoraPacket
    \/ ProcessNrfPacket

SpecPacket == InitPacket /\ [][NextPacket]_vars

(***************************************************************************)
(* The supervisor, the thread ends and the alert loop (SpecWatch)          *)
(***************************************************************************)
\* Either the threads have just been started, or the gateway has been running:
\* the LoRa worker has filled the high-priority queue and earlier packets have
\* left alerts on the alert queue.
InitWatch ==
    /\ lock = FALSE
    /\ spi_open = FALSE
    /\ packet_event = [w \in Workers |-> FALSE]
    /\ is_setup = [w \in Workers |-> FALSE]
    /\ exc = [w \in Workers |-> FALSE]
    /\ \/ /\ pc = [w \in Workers |-> "start"]
          /\ high_prio_q = <<>>
          /\ alert_q = <<>>
       \/ /\ pc = [w \in Workers |-> "wait"]
          /\ high_prio_q \in {[i \in 1..HighCap |-> p] : p \in Payloads}
          /\ alert_q \in SeqsUpTo({RuleAlert(<<>>)}, AlertCap)
    /\ low_prio_q = <<>>
    /\ pcP = "top"
    /\ processed_something = FALSE
    /\ hi_seen_empty = FALSE
    /\ hi_waiting = FALSE
    /\ store = <<>>
    /\ seq = 0
    /\ now = 0
    /\ pcE = "idle"
    /\ log_ids_to_update = <<>>
    /\ success = FALSE
    /\ http_status = 0
    /\ cloud = [i \in 1..MaxRows |-> 0]
    /\ pcA = "idle"
    /\ cutoff_date = 0
    /\ records = {}
    /\ archived = {}
    /\ shutdown_event = FALSE
    /\ pcS = "poll"
    /\ pcC = "loop"
    /\ is_sms_ready = FALSE
    /\ alert_message = NoAlert
    /\ in_kind = "none"
    /\ in_packet = <<>>
    /\ rules = <<>>
    /\ store_up = TRUE
    /\ call_result = "returned"
    /\ fatigue_data = <<>>
    /\ environment_log = <<>>
    /\ pcI = [w \in Workers |-> "idle"]
    /\ irq_pending = [w \in Workers |-> FALSE]
    /\ sms_result = "none"
    /\ upload_due = FALSE
    /\ pcH = "idle"
    /\ at_log = <<>>
    /\ cmd_failed = FALSE
    /\ raising = FALSE
    /\ conn_thread = Constructed
    /\ pcD = [u \in Connections |-> "top"]
    /\ refused = {}

NextWatch ==
    \/ \E w \in Workers : WorkerStart(w) \/ WorkerStop(w)
    \/ ProcIterStart
    \/ ProcHiCheck
    \/ ProcHiGet
    \/ ProcLoCheck
    \/ ProcStop
    \/ CommLoop
    \/ CommSetupWait
    \/ CommGet
    \/ CommSend
    \/ CommRequeue
    \/ CommUpload
    \/ UploadTimer
    \/ SupPoll
    \/ SupSleep
    \/ SupInterrupt
    \/ SupFinally
    \/ SupJoin

SpecWatch == InitWatch /\ [][NextWatch]_vars

\* The same system with its threads scheduled: a thread that can take a step
\* takes one.  Ctrl+C (SupInterrupt) is left to the operator.
SpecShutdown ==
    /\ InitWatch
    /\ [][NextWatch]_vars
    /\ \A w \in Workers : WF_vars(WorkerStart(w) \/ WorkerStop(w))
    /\ WF_vars(ProcIterStart \/ ProcHiCheck \/ ProcHiGet \/ ProcLoCheck \/ ProcStop)
    /\ WF_vars(CommLoop \/ CommSetupWait \/ CommGet \/ CommSend \/ CommRequeue \/ CommUpload)
    /\ WF_vars(SupPoll \/ SupSleep \/ SupFinally \/ SupJoin)

(***************************************************************************)
(* The data-session dialogue of one upload attempt (SpecModem)             *)
(***************************************************************************)
\* The egress is at its upload check with the interval elapsed, after an
\* iteration with or without a failed SMS; forward_data_to_cloud has selected
\* the one unsent row and calls _http_post_payload.
InitModem ==
    /\ lock = FALSE
    /\ spi_open = FALSE
    /\ packet_event = [w \in Workers |-> FALSE]
    /\ pc = [w \in Workers |-> "wait"]
    /\ is_setup = [w \in Workers |-> FALSE]
    /\ exc = [w \in Workers |-> FALSE]
    /\ high_prio_q = <<>>
    /\ low_prio_q = <<>>
    /\ pcP = "top"
    /\ processed_something = FALSE
    /\ hi_seen_empty = FALSE
    /\ hi_waiting = FALSE
    /\ store = <<[timestamp |-> 0, sent_to_cloud |-> 0]>>
    /\ seq = 1
    /\ now = 0
    /\ pcE = "post"
    /\ log_ids_to_update = <<1>>
    /\ success = FALSE
    /\ http_status = 0
    /\ cloud = [i \in 1..MaxRows |-> 0]
    /\ pcA = "idle"
    /\ cutoff_date = 0
    /\ records = {}
    /\ archived = {}
    /\ alert_q = <<>>
    /\ shutdown_event = FALSE
    /\ pcS = "poll"
    /\ pcC = "upload"
    /\ is_sms_ready \in BOOLEAN
    /\ alert_message = NoAlert
    /\ in_kind = "none"
    /\ in_packet = <<>>
    /\ rules = <<>>
    /\ store_up = TRUE
    /\ call_result = "returned"
    /\ fatigue_data = <<>>
    /\ environment_log = <<>>
    /\ pcI = [w \in Workers |-> "idle"]
    /\ irq_pending = [w \in Workers |-> FALSE]
    /\ sms_result = "none"
    /\ upload_due = TRUE
    /\ pcH = "idle"
    /\ at_log = <<>>
    /\ cmd_failed = FALSE
    /\ raising = FALSE
    /\ conn_thread = Constructed
    /\ pcD = [u \in Connections |-> "top"]
    /\ refused = {}

NextModem ==
    \/ HttpEntry
    \/ HttpCreg
    \/ HttpCregAgain
    \/ HttpSession
    \/ HttpPayload
    \/ HttpPayloadOk
    \/ HttpAction
    \/ HttpTerm
    \/ HttpClose

SpecModem == InitModem /\ [][NextModem]_vars

(***************************************************************************)
(* The upload batch on any content of fatigue_log (SpecBatch)              *)
(***************************************************************************)
\* rows the store has ever held in this specification
MaxStored == BatchLimit + 2

\* The egress is at its upload check with the interval elapsed; of the rows
\* inserted so far any may have been purged, any may be sent or unsent.
InitBatch ==
    /\ lock = FALSE
    /\ spi_open = FALSE
    /\ packet_event = [w \in Workers |-> FALSE]
    /\ pc = [w \in Workers |-> "wait"]
    /\ is_setup = [w \in Workers |-> FALSE]
    /\ exc = [w \in Workers |-> FALSE]
    /\ high_prio_q = <<>>
    /\ low_prio_q = <<>>
    /\ pcP = "top"
    /\ processed_something = FALSE
    /\ hi_seen_empty = FALSE
    /\ hi_waiting = FALSE
    /\ \E present \in SUBSET (1..MaxStored) :
         store \in [present -> {[timestamp |-> 0, sent_to_cloud |-> f] : f \in {0, 1}}]
    /\ seq = MaxStored
    /\ now = 0
    /\ pcE = "idle"
    /\ log_ids_to_update = <<>>
    /\ success = FALSE
    /\ http_status = 0
    /\ cloud = [i \in 1..MaxStored |->
                  IF i \in DOMAIN store /\ store[i].sent_to_cloud = 1 THEN 1 ELSE 0]
    /\ pcA = "idle"
    /\ cutoff_date = 0
    /\ records = {}
    /\ archived = {}
    /\ alert_q = <<>>
    /\ shutdown_event = FALSE
    /\ pcS = "poll"
    /\ pcC = "upload"
    /\ is_sms_ready = FALSE
    /\ alert_message = NoAlert
    /\ in_kind = "none"
    /\ in_packet = <<>>
    /\ rules = <<>>
    /\ store_up = TRUE
    /\ call_result = "returned"
    /\ fatigue_data = <<>>
    /\ environment_log = <<>>
    /\ pcI = [w \in Workers |-> "idle"]
    /\ irq_pending = [w \in Workers |-> FALSE]
    /\ sms_result = "none"
    /\ upload_due = TRUE
    /\ pcH = "idle"
    /\ at_log = <<>>
    /\ cmd_failed = FALSE
    /\ raising = FALSE
    /\ conn_thread = Constructed
    /\ pcD = [u \in Connections |-> "top"]
    /\ refused = {}

NextBatch ==
    \/ EgressSelect
    \/ EgressPost
    \/ EgressCommit

SpecBatch == InitBatch /\ [][NextBatch]_vars

(***************************************************************************)
(* The producers at their puts (SpecQueues)                                *)
(***************************************************************************)
\* The gateway has been running and every queue holds anything up to its
\* maxsize.  A worker may have read a packet inside its bus scope, the
\* processor may be about to take a primary packet, the egress may have ended
\* (found by the next poll of the watchdog) or hold an alert it could not send.
InitQueues ==
    /\ pc \in [Workers -> {"wait", "put"}]
    /\ \E v \in Workers : \A w \in Workers : pc[w] = "put" => w = v
    /\ lock = (\E w \in Workers : pc[w] = "put")
    /\ spi_open = lock
    /\ packet_event = [w \in Workers |-> FALSE]
    /\ is_setup = [w \in Workers |-> pc[w] = "put"]
    /\ exc = [w \in Workers |-> FALSE]
    /\ high_prio_q \in SeqsUpTo(Payloads, HighCap)
    /\ low_prio_q \in SeqsUpTo(Payloads, LowCap)
    /\ alert_q \in SeqsUpTo({RuleAlert(<<>>)}, AlertCap)
    /\ pcP \in {"top"} \cup (IF high_prio_q # <<>> THEN {"hi_get"} ELSE {})
    /\ processed_something = FALSE
    /\ hi_seen_empty = FALSE
    /\ hi_waiting = FALSE
    /\ store = <<>>
    /\ seq = 0
    /\ now = 0
    /\ pcE = "idle"
    /\ log_ids_to_update = <<>>
    /\ success = FALSE
    /\ http_status = 0
    /\ cloud = [i \in 1..MaxRows |-> 0]
    /\ pcA = "idle"
    /\ cutoff_date = 0
    /\ records = {}
    /\ archived = {}
    /\ shutdown_event = FALSE
    /\ pcS = "poll"
    /\ pcC \in {"loop", "requeue", "ended"}
    /\ is_sms_ready = (pcC = "requeue")
    /\ alert_message = IF pcC = "requeue" THEN RuleAlert(<<>>) ELSE NoAlert
    /\ in_kind = "none"
    /\ in_packet = <<>>
    /\ rules = <<>>
    /\ store_up = TRUE
    /\ call_result = "returned"
    /\ fatigue_data = <<>>
    /\ environment_log = <<>>
    /\ pcI = [w \in Workers |-> "idle"]
    /\ irq_pending = [w \in Workers |-> FALSE]
    /\ sms_result = "none"
    /\ upload_due = FALSE
    /\ pcH = "idle"
    /\ at_log = <<>>
    /\ cmd_failed = FALSE
    /\ raising = FALSE
    /\ conn_thread = Constructed
    /\ pcD = [u \in Connections |-> "top"]
    /\ refused = {}

NextQueues ==
    \/ \E w \in Workers : WorkerPut(w)
    \/ ProcHiGet
    \/ SupPoll
    \/ CommRequeue

SpecQueues == InitQueues /\ [][NextQueues]_vars

(***************************************************************************)
(* The connections in use (SpecAffinity)                                   *)
(***************************************************************************)
\* sqlite3 with check_same_thread left at its default: an operation on a
\* connection, or on a cursor of it, is carried out only in the thread that
\* called connect, and raises ProgrammingError (a sqlite3.Error) in any other
SameThread(u, thread) == conn_thread[u] = thread

\* the refusals on record after thread t has asked connection u for an operation
Checked(u, operation, thread) ==
    IF SameThread(u, thread)
    THEN refused
    ELSE refused \cup {[connection |-> u, operation |-> operation, thread |-> thread]}

\* main: DataProcessingThread(...) and CommunicationsThread(...) in the list of
\* threads; DataProcessingThread.__init__ opens self.db_conn there.  A connect
\* that raises ends main before any thread is started.
MainConstruct ==
    /\ pcD["processor"] = "new"
    /\ \/ /\ conn_thread' = [conn_thread EXCEPT !["processor"] = "MainThread"]
          /\ pcD' = [u \in Connections |-> "created"]
       \/ /\ pcD' = [u \in Connections |-> "ended"]
          /\ UNCHANGED conn_thread
    /\ UNCHANGED <<refused, busVars, queueVars, procVars, dbVars, now, egressVars, archVars, alert_q, watchVars, packetVars, latchVars, commVars, modemVars>>

\* main: for t in threads: t.start()
MainStart(u) ==
    /\ pcD[u] = "created"
    /\ pcD' = [pcD EXCEPT ![u] = "top"]
    /\ UNCHANGED <<conn_thread, refused, busVars, queueVars, procVars, dbVars, now, egressVars, archVars, alert_q, watchVars, packetVars, latchVars, commVars, modemVars>>

\* main: shutdown_event.set(), by the watchdog or in the finally block
MainShutdown ==
    /\ \A u \in Connections : pcD[u] \notin {"new", "created"}
    /\ ~shutdown_event
    /\ shutdown_event' = TRUE
    /\ UNCHANGED <<pcS, pcC, is_sms_ready, alert_message, connVars, busVars, queueVars, procVars, dbVars, now, egressVars, archVars, alert_q, packetVars, latchVars, commVars, modemVars>>

\* DataProcessingThread.run: a packet is taken from one of the queues and its
\* handler is entered with a packet that unpacks
DbTake ==
    /\ pcD["processor"] = "top"
    /\ ~shutdown_event
    /\ seq < MaxRows
    /\ Len(environment_log) < MaxRows
    /\ \E kind \in {"lora", "nrf"} :
         /\ in_kind' = kind
         /\ in_packet' \in IF kind = "lora" THEN LoraPackets ELSE NrfPackets
    /\ pcD' = [pcD EXCEPT !["processor"] = "insert"]
    /\ UNCHANGED <<rules, store_up, call_result, fatigue_data, environment_log, conn_thread, refused, busVars, queueVars, procVars, dbVars, now, egressVars, archVars, alert_q, watchVars, latchVars, commVars, modemVars>>

\* the try block of the handler: cursor = self.db_conn.cursor(), cursor.execute
\* of the INSERT and self.db_conn.commit().  The first of them is refused when
\* the thread is not the one that opened the connection; otherwise the store
\* accepts the row, or answers with an error of its own (locked, disk full).
\* Either error is a sqlite3.Error and leads to the rollback; with the row
\* committed the handler returns (no rule is configured).
DbInsert ==
    /\ pcD["processor"] = "insert"
    /\ refused' = Checked("processor", "cursor", RunThread("processor"))
    /\ \E accepted \in BOOLEAN :
         IF SameThread("processor", RunThread("processor")) /\ accepted
         THEN /\ IF in_kind = "lora"
                 THEN /\ seq' = seq + 1
                      /\ store' = InsertFatigue(store, seq + 1, now)
                      /\ fatigue_data' = InsertData(fatigue_data, seq + 1, UnpackLora(in_packet))
                      /\ UNCHANGED environment_log
                 ELSE /\ environment_log' =
                             Append(environment_log, [received_at |-> now] @@ UnpackNrf(in_packet))
                      /\ UNCHANGED <<store, seq, fatigue_data>>
              /\ call_result' = "returned"
              /\ pcD' = [pcD EXCEPT !["processor"] = "top"]
         ELSE /\ pcD' = [pcD EXCEPT !["processor"] = "rollback"]
              /\ UNCHANGED <<store, seq, fatigue_data, environment_log, call_result>>
    /\ UNCHANGED <<in_kind, in_packet, rules, store_up, conn_thread, busVars, queueVars, procVars, now, egressVars, archVars, alert_q, watchVars, latchVars, commVars, modemVars>>

\* except sqlite3.Error: self.db_conn.rollback() and the handler returns; a
\* rollback that is refused leaves the handler with its ProgrammingError, which
\* run's except Exception logs before the next iteration
DbRollback ==
    /\ pcD["processor"] = "rollback"
    /\ refused' = Checked("processor", "rollback", RunThread("processor"))
    /\ call_result' = IF SameThread("processor", RunThread("processor")) THEN "returned" ELSE "raised"
    /\ pcD' = [pcD EXCEPT !["processor"] = "top"]
    /\ UNCHANGED <<in_kind, in_packet, rules, store_up, fatigue_data, environment_log, conn_thread, busVars, queueVars, procVars, dbVars, now, egressVars, archVars, alert_q, watchVars, latchVars, commVars, modemVars>>

\* while not self.shutdown_event.is_set() ends; self.db_conn.close() outside
\* the try block: a refused close ends run with the connection left open
DbClose ==
    /\ pcD["processor"] = "top"
    /\ shutdown_event
    /\ refused' = Checked("processor", "close", RunThread("processor"))
    /\ conn_thread' = IF SameThread("processor", RunThread("processor"))
                      THEN [conn_thread EXCEPT !["processor"] = "none"]
                      ELSE conn_thread
    /\ call_result' = IF SameThread("processor", RunThread("processor")) THEN "returned" ELSE "raised"
    /\ pcD' = [pcD EXCEPT !["processor"] = "ended"]
    /\ UNCHANGED <<in_kind, in_packet, rules, store_up, fatigue_data, environment_log, busVars, queueVars, procVars, dbVars, now, egressVars, archVars, alert_q, watchVars, latchVars, commVars, modemVars>>

\* forward_data_to_cloud: db_conn = sqlite3.connect(DATABASE_FILE), called by run
FwdConnect ==
    /\ pcD["egress"] = "top"
    /\ ~shutdown_event
    /\ conn_thread' = [conn_thread EXCEPT !["egress"] = RunThread("egress")]
    /\ pcD' = [pcD EXCEPT !["egress"] = "select"]
    /\ UNCHANGED <<refused, busVars, queueVars, procVars, dbVars, now, egressVars, archVars, alert_q, watchVars, packetVars, latchVars, commVars, modemVars>>

\* cursor = db_conn.cursor(); cursor.execute("SELECT ..."); if not records:
\* db_conn.close(), return; log_ids_to_update = [row[0] for row in records].
\* A refused operation leaves forward_data_to_cloud and run.
FwdSelect ==
    /\ pcD["egress"] = "select"
    /\ refused' = Checked("egress", "execute", RunThread("egress"))
    /\ IF ~SameThread("egress", RunThread("egress"))
       THEN /\ pcD' = [pcD EXCEPT !["egress"] = "ended"]
            /\ UNCHANGED <<conn_thread, log_ids_to_update>>
       ELSE IF SelectUnsent(store) = <<>>
            THEN /\ conn_thread' = [conn_thread EXCEPT !["egress"] = "none"]
                 /\ pcD' = [pcD EXCEPT !["egress"] = "top"]
                 /\ UNCHANGED log_ids_to_update
            ELSE /\ log_ids_to_update' = SelectUnsent(store)
                 /\ pcD' = [pcD EXCEPT !["egress"] = "update"]
                 /\ UNCHANGED conn_thread
    /\ UNCHANGED <<pcE, success, http_status, cloud, busVars, queueVars, procVars, dbVars, now, archVars, alert_q, watchVars, packetVars, latchVars, commVars, modemVars>>

\* success = self._http_post_payload(json_payload); if success: UPDATE ... and
\* db_conn.commit(); db_conn.close()
FwdUpdate ==
    /\ pcD["egress"] = "update"
    /\ \E posted \in BOOLEAN :
         /\ refused' = IF posted THEN Checked("egress", "execute", RunThread("egress")) ELSE refused
         /\ store' = IF posted /\ SameThread("egress", RunThread("egress"))
                     THEN MarkSent(store, log_ids_to_update)
                     ELSE store
         /\ pcD' = [pcD EXCEPT !["egress"] =
                       IF posted /\ ~SameThread("egress", RunThread("egress")) THEN "ended" ELSE "top"]
         /\ conn_thread' = IF posted /\ ~SameThread("egress", RunThread("egress"))
                           THEN conn_thread
                           ELSE [conn_thread EXCEPT !["egress"] = "none"]
    /\ log_ids_to_update' = <<>>
    /\ UNCHANGED <<seq, pcE, success, http_status, cloud, busVars, queueVars, procVars, now, archVars, alert_q, watchVars, packetVars, latchVars, commVars, modemVars>>

\* CommunicationsThread.run: while not self.shutdown_event.is_set() ends
FwdStop ==
    /\ pcD["egress"] = "top"
    /\ shutdown_event
    /\ pcD' = [pcD EXCEPT !["egress"] = "ended"]
    /\ UNCHANGED <<conn_thread, refused, busVars, queueVars, procVars, dbVars, now, egressVars, archVars, alert_q, watchVars, packetVars, latchVars, commVars, modemVars>>

\* main is about to build its thread list.  The database file holds what an
\* earlier run left: nothing, or a row not yet sent.
InitAffinity ==
    /\ lock = FALSE
    /\ spi_open = FALSE
    /\ packet_event = [w \in Workers |-> FALSE]
    /\ pc = [w \in Workers |-> "wait"]
    /\ is_setup = [w \in Workers |-> FALSE]
    /\ exc = [w \in Workers |-> FALSE]
    /\ high_prio_q = <<>>
    /\ low_prio_q = <<>>
    /\ pcP = "top"
    /\ processed_something = FALSE
    /\ hi_seen_empty = FALSE
    /\ hi_waiting = FALSE
    /\ \/ /\ store = <<>>
          /\ fatigue_data = <<>>
          /\ seq = 0
       \/ /\ store = <<[timestamp |-> 0, sent_to_cloud |-> 0]>>
          /\ fatigue_data = <<OldData>>
          /\ seq = 1
    /\ now = 0
    /\ pcE = "idle"
    /\ log_ids_to_update = <<>>
    /\ success = FALSE
    /\ http_status = 0
    /\ cloud = [i \in 1..MaxRows |-> 0]
    /\ pcA = "idle"
    /\ cutoff_date = 0
    /\ records = {}
    /\ archived = {}
    /\ alert_q = <<>>
    /\ shutdown_event = FALSE
    /\ pcS = "poll"
    /\ pcC = "loop"
    /\ is_sms_ready = FALSE
    /\ alert_message = NoAlert
    /\ in_kind = "none"
    /\ in_packet = <<>>
    /\ rules = <<>>
    /\ store_up = TRUE
    /\ call_result = "returned"
    /\ environment_log = <<>>
    /\ pcI = [w \in Workers |-> "idle"]
    /\ irq_pending = [w \in Workers |-> FALSE]
    /\ sms_result = "none"
    /\ upload_due = FALSE
    /\ pcH = "idle"
    /\ at_log = <<>>
    /\ cmd_failed = FALSE
    /\ raising = FALSE
    /\ conn_thread = NoConnections
    /\ pcD = [u \in Connections |-> "new"]
    /\ refused = {}

NextAffinity ==
    \/ MainConstruct
    \/ \E u \in Connections : MainStart(u)
    \/ MainShutdown
    \/ DbTake
    \/ DbInsert
    \/ DbRollback
    \/ DbClose
    \/ FwdConnect
    \/ FwdSelect
    \/ FwdUpdate
    \/ FwdStop

SpecAffinity == InitAffinity /\ [][NextAffinity]_vars

(***************************************************************************)
(* Properties of the ingest pipeline (checked under Spec)                  *)
(***************************************************************************)
\* the processor removes an item from the low-priority queue in this step
LowRemoved == Len(low_prio_q') < Len(low_prio_q)

\* C1: bus mutual exclusion - at most one worker is between the lock
\* acquisition of __enter__ and the release of __exit__, so the device is
\* opened and used by one worker at a time.
BusMutualExclusion ==
    \A v, w \in Workers : (HoldsLock(v) /\ HoldsLock(w)) => v = w

\* C1 witness: one worker is inside its scope while the other one is blocked
\* in lock.acquire()
BusContended ==
    \E v, w \in Workers : InScope(v) /\ pc[w] = "acquire"

\* C2: the lock is locked exactly while some worker is between acquire and
\* release; after a failed __enter__, an exception in the body, a failed close
\* or a normal end the lock is free again.
LockHeldOnlyInScope ==
    lock <=> (\E w \in Workers : HoldsLock(w))

\* C2 witness: __enter__ failed for a worker (it is in its handler without a
\* body exception) and the lock is free
EnterFailedLockFree ==
    \E w \in Workers : pc[w] = "handler" /\ ~exc[w] /\ ~lock

\* C3: strict priority per iteration - whenever the processor removes a low
\* item, it has seen the high queue empty in this iteration after its last
\* high removal.
HighDrainedBeforeLow == [][LowRemoved => hi_seen_empty]_vars

\* C3 witness: a low item is in work after the high queue was seen empty, and
\* after a high item was processed in the same iteration
LowTakenAfterHighDrain ==
    pcP = "lo_proc" /\ hi_seen_empty /\ processed_something

\* C4: no priority inversion across a low-priority drain - once a primary
\* packet is queued when the processor finishes a low item, no further low
\* item is removed before that packet is processed.
ServicedBeforeNextLow == [][LowRemoved => ~hi_waiting]_vars

(***************************************************************************)
(* Properties of the store pipeline (checked under SpecStore)              *)
(***************************************************************************)
\* C5: the sent flag is committed if and only if the batch was reported
\* acknowledged - the step that ends a successful upload sets sent_to_cloud = 1
\* on exactly the rows of the batch, and no other step of the egress (select,
\* POST, a failed upload, a failed UPDATE) changes any row.
SentFlagFollowsResult ==
    [][(pcE' # pcE) =>
         IF pcE = "commit" /\ success /\ pcE' = "idle"
         THEN /\ DOMAIN store' = DOMAIN store
              /\ \A i \in DOMAIN store :
                    IF i \in Ids(log_ids_to_update)
                    THEN /\ store'[i].sent_to_cloud = 1
                         /\ store'[i].timestamp = store[i].timestamp
                    ELSE store'[i] = store[i]
         ELSE store' = store]_vars

\* C5 witness: an acknowledged batch is committed while an unsent row outside
\* the batch is left as it was
BatchCommittedOthersUntouched ==
    /\ pcE = "idle"
    /\ \E i, j \in DOMAIN store :
         /\ store[i].sent_to_cloud = 1
         /\ store[j].sent_to_cloud = 0

\* C6: only HTTP status 200 counts as upstream success - whenever
\* _http_post_payload has returned success, the status of the action result
\* was 200.
OnlyStatus200Succeeds ==
    (pcE = "commit" /\ success) => http_status = 200

\* C7: at-least-once delivery - no component removes a row from the store
\* while its sent_to_cloud flag is still 0, so that the egress keeps retrying
\* it until upstream acknowledges it.
UnsentRowNeverRemoved ==
    [][\A i \in DOMAIN store :
         store[i].sent_to_cloud = 0 => i \in DOMAIN store']_vars

\* C8: at-most-once delivery - upstream never accepts two POSTs that carry the
\* same row.
AtMostOnceDelivery ==
    \A i \in DOMAIN cloud : cloud[i] <= 1

\* C9: write-then-delete - the archiver is at its DELETE only with the fetched
\* rows in a completely written file, and every row ever inserted is in the
\* store or in a completed archive file with its timestamp.
WriteThenDelete ==
    /\ pcA = "delete" => (records # {} /\ records \subseteq archived)
    /\ \A i \in 1..seq :
         \/ i \in DOMAIN store
         \/ \E r \in archived : r.log_id = i

\* C9 witness: a row has been purged from the store (and is in a file)
RowPurged ==
    \E i \in 1..seq : i \notin DOMAIN store

\* the rows a step removes from fatigue_log
Purged == DOMAIN store \ DOMAIN store'

\* C10 (amended): the log_ids purged by a run are exactly the log_ids written
\* to its archive file, which are exactly those of the rows with timestamp
\* strictly less than the cutoff; the purge leaves every row with timestamp
\* equal to or later than the cutoff in the store as it is.
PurgedIdsAreArchivedIds ==
    [][Purged # {} =>
         /\ Purged = {r.log_id : r \in records}
         /\ records \subseteq archived
         /\ Purged = {i \in DOMAIN store : store[i].timestamp < cutoff_date}
         /\ \A i \in DOMAIN store' :
               store'[i] = store[i] /\ store[i].timestamp >= cutoff_date]_vars

\* C10 witness: a purge took the row older than the cutoff and kept a newer one
PurgeKeptNewerRow ==
    /\ pcA = "idle"
    /\ \E r \in archived, j \in DOMAIN store :
         /\ r.log_id \notin DOMAIN store
         /\ store[j].timestamp > r.timestamp

\* C10 (as claimed): the rows deleted are exactly the rows written to the
\* archive file, also when the egress updates rows between SELECT and DELETE.
PurgedRowsAreArchivedRows ==
    [][Purged # {} => {Row(store, i) : i \in Purged} = records]_vars

(***************************************************************************)
(* Properties of the packet handlers (checked under SpecPacket)            *)
(***************************************************************************)
\* the call of _process_lora_packet happens in this step
LoraHandled == pcP = "hi_proc" /\ pcP' # "hi_proc"

\* the call of _process_nrf_packet happens in this step
NrfHandled == pcP = "lo_proc" /\ pcP' # "lo_proc"

\* C11 (amended): primary packet length gate - with the store accepting the
\* insert, a primary packet yields a new fatigue_log row if and only if it is
\* exactly 24 bytes long; every 24-byte packet then yields exactly one new row
\* with the packet's node_id and three counters and sent_to_cloud = 0; a packet
\* of any other length, 20 bytes included, writes no row and raises no alert.
LengthGate24 ==
    [][LoraHandled =>
         /\ (Len(in_packet) = 24 /\ store_up) =>
               /\ seq' = seq + 1
               /\ DOMAIN store' = DOMAIN store \cup {seq'}
               /\ store'[seq'].sent_to_cloud = 0
               /\ fatigue_data'[seq'] = UnpackLora(in_packet)
         /\ Len(in_packet) # 24 =>
               /\ UNCHANGED <<store, seq, fatigue_data, alert_q>>
               /\ pcP' = "hi_check"]_vars

\* C11 witness: a 24-byte packet was handled and its row is the newest of the table
FullLengthPacketStored ==
    /\ in_kind = "lora"
    /\ pcP = "hi_check"
    /\ Len(in_packet) = 24
    /\ seq \in DOMAIN store
    /\ store[seq].timestamp = now
    /\ store[seq].sent_to_cloud = 0

\* C11 (as claimed): with the store accepting the insert, a primary packet
\* yields a new row if and only if it is exactly 20 bytes long.
LengthGate20 ==
    [][(LoraHandled /\ store_up) => ((Len(in_packet) = 20) <=> (seq' = seq + 1))]_vars

\* C12: primary packet decode and persist - for every primary packet that is
\* unpacked (the store accepting the insert) exactly one row is added, whose
\* node_id is the little-endian 16-bit value of bytes 0-1 and whose three
\* counters are the little-endian 32-bit values at offsets 3, 7 and 11, with
\* sent_to_cloud = 0; no row that existed is changed; with an empty rule set no
\* alert is enqueued.
DecodeAndPersist ==
    [][(LoraHandled /\ Len(in_packet) = CalcSize(LoraFormat) /\ store_up) =>
         LET b == in_packet
             LE32(o) == b[o + 1] + 256 * b[o + 2] + 65536 * b[o + 3] + 16777216 * b[o + 4]
         IN /\ DOMAIN store' = DOMAIN store \cup {seq + 1}
            /\ seq + 1 \notin DOMAIN store
            /\ DOMAIN fatigue_data' = DOMAIN store'
            /\ \A i \in DOMAIN store : store'[i] = store[i] /\ fatigue_data'[i] = fatigue_data[i]
            /\ store'[seq + 1].sent_to_cloud = 0
            /\ fatigue_data'[seq + 1] =
                  [node_id |-> b[1] + 256 * b[2],
                   bin_1_cycles |-> LE32(3), bin_2_cycles |-> LE32(7), bin_3_cycles |-> LE32(11)]
            /\ rules = <<>> => alert_q' = alert_q]_vars

\* C12 witness: the packet 01 00 FF 05 00 00 00 0A 00 00 00 14 00 00 00 ... was
\* handled with an empty rule set next to an older row: node 1, counters 5/10/20,
\* unsent, no alert
ScenarioPacketStored ==
    /\ in_packet = <<1, 0, 255,  5, 0, 0, 0,  10, 0, 0, 0,  20, 0, 0, 0,
                     0, 0, 128, 63,  0, 0, 0, 64,  0>>
    /\ pcP = "hi_check"
    /\ rules = <<>>
    /\ seq = 2
    /\ store[1] = OldRow
    /\ store[2].sent_to_cloud = 0
    /\ fatigue_data[2] = [node_id |-> 1, bin_1_cycles |-> 5, bin_2_cycles |-> 10, bin_3_cycles |-> 20]
    /\ alert_q = <<>>

StoreFailureSkipsPacket ==
    [][(LoraHandled /\ ~UnpackFails(in_packet, LoraFormat) /\ ~store_up) =>
         /\ UNCHANGED <<store, seq, fatigue_data, alert_q>>
         /\ pcP' \in {"hi_check", "top"}]_vars

\* C14 witness: a packet whose node and value match a rule met a failing store
\* with room on the alert queue: no row, no alert, and the loop goes on
StoreFailedOnAlertingPacket ==
    /\ in_kind = "lora"
    /\ pcP \in {"hi_check", "top"}
    /\ ~store_up
    /\ Len(in_packet) = 24
    /\ \E i \in 1..Len(rules) : RuleFires(rules[i], UnpackLora(in_packet).node_id,
                                           AlertData(UnpackLora(in_packet)))
    /\ alert_q = <<>>
    /\ seq = 0

Polled == pcS = "poll" /\ pcS' = "sleep"

\* C16: bounded queues with drop-on-full - no queue ever holds more than its
\* maxsize, and a put of an ingestor, of the processor's rule evaluation or of
\* the watchdog that finds its queue at capacity leaves that queue as it is.
QueuesBoundedDropOnFull ==
    /\ [](/\ Len(high_prio_q) <= HighCap
          /\ Len(low_prio_q) <= LowCap
          /\ Len(alert_q) <= AlertCap)
    /\ [][/\ (pc["LoRaWorker"] = "put" /\ pc'["LoRaWorker"] # "put" /\ Len(high_prio_q) = HighCap)
               => high_prio_q' = high_prio_q
          /\ (pc["nRFWorker"] = "put" /\ pc'["nRFWorker"] # "put" /\ Len(low_prio_q) = LowCap)
               => low_prio_q' = low_prio_q
          /\ (pcP = "hi_get" /\ pcP' # "hi_get" /\ Len(alert_q) = AlertCap)
               => alert_q' = alert_q
          /\ (Polled /\ Len(alert_q) = AlertCap)
               => alert_q' = alert_q]_vars

\* C16 witness: the watchdog found the egress dead and set the latch, and its
\* alert is not on the alert queue, which is full of earlier alerts
WatchdogAlertDropped ==
    /\ shutdown_event
    /\ pcS = "sleep"
    /\ Len(alert_q) = AlertCap
    /\ \A i \in 1..Len(alert_q) : alert_q[i].kind = "rule"

(***************************************************************************)
(* Properties of the supervisor and the alert loop (checked under          *)
(* SpecWatch)                                                              *)
(***************************************************************************)
\* C17: no unbounded blocking on a queue - no activity is ever waiting on a
\* queue without a timeout while no other activity can unblock it: the egress
\* is never at its put of a failed alert with the alert queue at capacity (it
\* is the only activity that takes from that queue).
NoActivityStuckOnQueue == ~(pcC = "requeue" /\ Len(alert_q) = AlertCap)

\* C18: local recovery of every error - no ingestor, processor or egress ends
\* its run before the shutdown latch has been set.
ActivityEndsOnlyAfterShutdown ==
    \A i \in 1..Len(Threads) : ~IsAlive(Threads[i]) => shutdown_event

\* C19: watchdog reaction - a poll that finds a thread not alive while the
\* latch is unset puts the alert naming the first dead thread (if the alert
\* queue has room; a full queue is left as it is) and sets the latch; the latch
\* is set by no step but that poll and the supervisor's finally block; with
\* the latch set the supervisor leaves its loop for the finally block, goes on
\* to the joins, and comes back from them only when every thread has ended.
WatchdogReaction ==
    [][/\ (Polled /\ FirstDead # 0) =>
             /\ shutdown_event'
             /\ alert_q' = IF Len(alert_q) < AlertCap
                           THEN Append(alert_q,
                                  [kind |-> "watchdog",
                                   text |-> <<"FATAL: Thread '", Threads[FirstDead], "' terminated.">>])
                           ELSE alert_q
       /\ (~shutdown_event /\ shutdown_event') =>
             \/ Polled /\ FirstDead # 0
             \/ pcS = "finally" /\ pcS' = "join"
       /\ (shutdown_event /\ pcS = "poll") => pcS' \in {"poll", "finally"}
       /\ pcS = "finally" => pcS' \in {"finally", "join"}
       /\ (pcS # "exited" /\ pcS' = "exited") =>
             /\ pcS = "join"
             /\ \A i \in 1..Len(Threads) : ~IsAlive(Threads[i])]_vars

\* C19 witness: the supervisor has come back from the joins after a poll that
\* found the LoRa worker dead and queued its alert
WatchdogFiredAndJoined ==
    /\ pcS = "exited"
    /\ shutdown_event
    /\ \E i \in 1..Len(alert_q) : alert_q[i] = WatchdogAlert("LoRaWorker")

\* C20: the watchdog alert reaches the operator - when the process exits, no
\* watchdog alert for a thread other than the egress is still on the alert
\* queue (an alert left there was never sent and is gone with the process).
WatchdogAlertSentBeforeExit ==
    pcS = "exited" =>
        \A i \in 1..Len(alert_q) :
            \A t \in {"LoRaWorker", "nRFWorker", "DataProcessor"} : alert_q[i] # WatchdogAlert(t)

(***************************************************************************)
(* Properties of the interrupt latches (checked under SpecLatch)           *)
(***************************************************************************)
\* C23: the interrupt latch loses no wake - under every interleaving of the
\* callback (test, set if unset) with the worker (wait, clear, bus, radio),
\* an interrupt raised since the worker last cleared its latch has the latch
\* set (or its callback is about to set it), so the worker wakes again; a latch
\* that is set is cleared by nothing but the worker's clear after a wake, which
\* comes before that wake's radio read; an interrupt raised while the latch is
\* set changes nothing.
LatchLosesNoWake ==
    /\ [](\A w \in Workers : irq_pending[w] => (packet_event[w] \/ pcI[w] = "set"))
    /\ [][\A w \in Workers :
            /\ (packet_event[w] /\ ~packet_event'[w]) =>
                   (pc[w] = "clear" /\ pc'[w] = "acquire")
            /\ (~irq_pending[w] /\ irq_pending'[w] /\ packet_event[w]) =>
                   (packet_event' = packet_event /\ pcI' = pcI /\ pc' = pc)
            /\ pc'[w] = "read" => pc[w] \in {"setup", "put", "read"}]_vars

\* C23 witness: the LoRa worker is at its radio read and a second interrupt,
\* raised after the clear, has set the latch again
InterruptDuringRead ==
    /\ pc["LoRaWorker"] = "read"
    /\ irq_pending["LoRaWorker"]
    /\ packet_event["LoRaWorker"]
    /\ pcI["LoRaWorker"] = "idle"

(***************************************************************************)
(* Properties of the bus scope (checked under Spec)                        *)
(***************************************************************************)
\* C24: the bus is held only for radio I/O - no worker waits for the lock
\* while the other worker, inside its bus scope, serves the 5-second delay
\* after a failed radio setup or is at the put into its hand-off queue with
\* that queue at capacity (where the put waits up to 0.5 s).
BusHeldOnlyForRadio ==
    \A w \in Workers : \A v \in Workers \ {w} :
        ~(/\ pc[v] = "acquire"
          /\ lock
          /\ \/ pc[w] = "sleep"
             \/ pc[w] = "put" /\ w = "LoRaWorker" /\ Len(high_prio_q) = HighCap
             \/ pc[w] = "put" /\ w = "nRFWorker" /\ Len(low_prio_q) = LowCap)

\* C30: the device is closed whenever the bus is free - in every state in
\* which the arbiter lock is not held the spidev device is not open.
DeviceClosedWhenBusFree == ~lock => ~spi_open

(***************************************************************************)
(* Properties of the fatigue rows (checked under SpecStore)                *)
(***************************************************************************)
\* C22: fatigue row identity and sent-flag monotonicity - under every
\* interleaving of processor inserts, egress updates and archiver deletes, a
\* row that enters fatigue_log has sent_to_cloud = 0 and a log_id greater than
\* every log_id assigned before (those of the rows in the store and of the
\* rows purged into the archive included); the flag of a row is 0 or 1 and a
\* flag that is 1 stays 1 as long as the row exists.
FatigueRowIdentity ==
    /\ [](/\ \A i \in DOMAIN store : i \in 1..seq /\ store[i].sent_to_cloud \in {0, 1}
          /\ \A r \in archived : r.log_id \in 1..seq)
    /\ [][/\ \A i \in DOMAIN store' \ DOMAIN store :
               /\ store'[i].sent_to_cloud = 0
               /\ i > seq
               /\ \A j \in DOMAIN store : j < i
               /\ \A r \in archived : r.log_id < i
          /\ \A i \in DOMAIN store \cap DOMAIN store' :
               store[i].sent_to_cloud = 1 => store'[i].sent_to_cloud = 1]_vars

\* C22 witness: row 1 has been purged into the archive, and the row inserted
\* after the purge has log_id 2 and has been marked sent by the egress
RowInsertedAfterPurgeAndSent ==
    /\ \E r \in archived : r.log_id = 1
    /\ DOMAIN store = {2}
    /\ store[2].timestamp = MaxTime
    /\ store[2].sent_to_cloud = 1

\* C25: no alert is lost by the egress - when the egress leaves the try block
\* of the iteration in which it took an alert from the alert queue, send_sms
\* has returned True for that alert or this step has put it back at the end
\* of the alert queue.
NoAlertLostByEgress ==
    [][(pcC \in {"send", "requeue"} /\ pcC' = "upload") =>
          (sms_result' = "sent" \/ alert_q' = Append(alert_q, alert_message))]_vars

\* C26: the cloud upload is independent of alert delivery - an iteration of
\* the egress loop that starts with the upload interval elapsed does not end
\* in the wait after a failed SMS setup, which goes back to the head of the
\* loop without the upload check.
UploadNotBehindSmsSetup ==
    [][(pcC = "loop" /\ upload_due /\ ~shutdown_event) => pcC' # "setup_wait"]_vars

(***************************************************************************)
(* Properties of the data-session dialogue (checked under SpecModem)       *)
(***************************************************************************)
\* C27: unconditional session teardown - when _http_post_payload is left
\* (by return or by an exception) and the first command of the dialogue
\* (AT+CREG?) had been written, the last two commands written are AT+HTTPTERM
\* and then AT+SAPBR=0,1.
TeardownAlwaysSent ==
    (pcH = "done" /\ at_log # <<>> /\ Head(at_log) = "AT+CREG?") =>
        /\ Len(at_log) >= 2
        /\ at_log[Len(at_log) - 1] = "AT+HTTPTERM"
        /\ at_log[Len(at_log)] = "AT+SAPBR=0,1"

\* C28: an unexpected modem response aborts the dialogue - when
\* _http_post_payload has returned and one of the commands from the bearer
\* configuration to the payload-length declaration did not get its expected
\* response, the call has returned False, AT+HTTPACTION=1 was not written,
\* and the egress holds the modem as not ready (is_sms_ready is False).
UnexpectedResponseAborts ==
    (pcH = "done" /\ ~raising /\ cmd_failed) =>
        /\ ~success
        /\ \A i \in 1..Len(at_log) : at_log[i] # "AT+HTTPACTION=1"
        /\ ~is_sms_ready

ShutdownTerminates ==
    /\ [][shutdown_event => shutdown_event']_vars
    /\ shutdown_event ~> (pcS = "exited")

(***************************************************************************)
(* Properties of the connections (checked under SpecAffinity)              *)
(***************************************************************************)
\* C31: store connection affinity - every operation an activity issues on a
\* durable-store connection (cursor, execute, commit, rollback, close) is
\* issued from the thread that opened that connection, the processor's
\* long-lived connection included, so the store never refuses an operation
\* for coming from another thread than the one that called connect.
StoreConnectionAffinity == refused = {}

=============================================================================
